---- MODULE Spec2Model ----
(***************************************************************************)
(* openclawpack: the transport adapter (ClaudeTransport.run), the command  *)
(* workflows built on it, the result envelope (CommandResult) and the      *)
(* answer-injection callback (build_answer_callback), the workflow engine  *)
(* (WorkflowEngine) and the public API functions (api.py).                 *)
(*                                                                         *)
(* Conventions.  A Python optional value is a sequence of length 0 or 1:   *)
(* None is << >> and a present value v is <<v>>.  Python strings are TLA+  *)
(* strings.  Time is counted in seconds since the pump loop started.       *)
(***************************************************************************)
EXTENDS Integers, Sequences, FiniteSets, TLC

VARIABLES
    pc,              \* per run: "idle", "pumping" (inside the async for) or "done"
    entry,           \* per run: the entry point the caller used
    kwargs,          \* per run: the per-call keyword arguments given to run()
    config,          \* per run: the TransportConfig of the adapter instance
    elapsed,         \* per run: seconds since asyncio.timeout() was entered
    nmsgs,           \* per run: messages consumed from the stream so far
    result_message,  \* per run: the local variable result_message of run()
    outcome,         \* per run: what left ClaudeTransport.run
    final,           \* per run: what left the entry point the caller used
    emitted,         \* per run: the last ResultMessage the stream has emitted
    ended,           \* per run: how the try block of run() was left
    deadline,        \* per run: the time at which asyncio.timeout() expires
    last_arrival,    \* per run: the time at which the last message arrived
    stream,          \* per run: the messages the session has emitted, in order
    thread,          \* per run: the kind of thread that called run_sync
    workflow_args,   \* per run: the arguments the command workflow was given
    engine_args,     \* per run: the engine's timeout and run_gsd_command's arguments
    query_args,      \* per run: what run() handed to the runtime's query()
    sessions,        \* per run: the sessions query() has started for it
    try_outcome,     \* per run: what ended the try block of run(), before the except clauses
    defaults,        \* per workflow: its module-level table of default answers
    registry,        \* the project registry file
    api_call,        \* the last call of a public API function
    api_result,      \* what that call returned or raised
    events,          \* the events that call emitted on its bus, in order
    projects,        \* _data.projects of the ProjectRegistry instance a caller holds
    reg_call,        \* the last method called on that instance
    reg_result,      \* what that method returned or raised
    answer_map,      \* the policy closed over by the callback, in insertion order
    tool_call,       \* the last (tool_name, tool_input) handed to the callback
    decision,        \* what the callback returned or raised for tool_call
    warnings         \* logger.warning records of the last callback invocation

transportVars == <<pc, entry, kwargs, config, elapsed, nmsgs, result_message,
                   outcome, final, emitted, ended, deadline, last_arrival,
                   stream, thread, workflow_args, engine_args, query_args,
                   sessions, try_outcome>>
answerVars == <<answer_map, tool_call, decision, warnings>>
apiVars == <<registry, api_call, api_result, events>>
registryVars == <<projects, reg_call, reg_result>>
vars == <<pc, entry, kwargs, config, elapsed, nmsgs, result_message, outcome,
          final, emitted, ended, deadline, last_arrival, stream, thread,
          workflow_args, engine_args, query_args, sessions, try_outcome,
          defaults, registry, api_call,
          api_result, events, projects, reg_call, reg_result, answer_map,
          tool_call, decision, warnings>>

None == << >>
Some(v) == <<v>>

-----------------------------------------------------------------------------
(* Bounds of the model *)

\* messages one stream delivers at most
MaxMsgs == 3
\* entries of a policy
MaxKeys == 2
\* characters of a question text
MaxTextLen == 2
\* questions of one AskUserQuestion call
MaxQuestions == 2
\* messages each of two concurrent runs consumes
MaxConcurrentMsgs == 2

-----------------------------------------------------------------------------
(* The collaborator runtime (claude_agent_sdk) as seen from client.py *)

\* keyword parameters query() takes
SdkQueryParams == {"prompt", "options", "transport"}

\* terminal result messages a session can emit
ResultMessages ==
    [type : {"ResultMessage"}, is_error : BOOLEAN,
     result : {None, Some("payload")}, session_id : {"s1", "s2"},
     usage : {None, Some("usage1")}, duration_ms : {0, 42}]

\* messages of the stream that are no ResultMessage
OtherMessages == {[type |-> "AssistantMessage"], [type |-> "SystemMessage"]}

\* failures the runtime raises while the session is started or pumped
SdkFailures ==
    {[type |-> "CLINotFoundError", message |-> "Claude Code not found"],
     [type |-> "CLIConnectionError", message |-> "Not connected"],
     [type |-> "ClaudeSDKError", message |-> "sdk failure"],
     [type |-> "MessageParseError", message |-> "Unknown message type"],
     [type |-> "TimeoutError", message |-> "control request timed out"]}
    \cup [type : {"SDKProcessError"}, message : {"Command failed"},
          exit_code : {None, Some(1)}, stderr : {None, Some("boom")}]
    \cup [type : {"CLIJSONDecodeError"}, message : {"Failed to decode JSON"},
          line : {"{bad"}]

\* the direct base class of an exception class ("" above Exception)
BaseOf(cls) ==
    CASE cls = "CLINotFoundError" -> "CLIConnectionError"
      [] cls \in {"CLIConnectionError", "SDKProcessError", "CLIJSONDecodeError",
                  "MessageParseError"} -> "ClaudeSDKError"
      [] cls \in {"CLINotFound", "ProcessError", "TransportTimeout",
                  "JSONDecodeError", "ConnectionError_"} -> "TransportError"
      [] cls = "TimeoutError" -> "OSError"
      [] cls = "ValidationError" -> "ValueError"
      [] cls \in {"ClaudeSDKError", "TransportError", "OSError", "ValueError",
                  "TypeError"} -> "Exception"
      [] OTHER -> ""

RECURSIVE IsInstance(_, _)
IsInstance(cls, base) ==
    IF cls = base THEN TRUE
    ELSE IF cls = "" THEN FALSE
    ELSE IsInstance(BaseOf(cls), base)

-----------------------------------------------------------------------------
(* transport/errors.py *)

CLINotFound(message) == [type |-> "CLINotFound", message |-> message]

ProcessError(message, exit_code, stderr) ==
    [type |-> "ProcessError", message |-> message, exit_code |-> exit_code,
     stderr |-> stderr]

TransportTimeout(message, timeout_seconds) ==
    [type |-> "TransportTimeout", message |-> message,
     timeout_seconds |-> timeout_seconds]

JSONDecodeError(message, raw_output) ==
    [type |-> "JSONDecodeError", message |-> message, raw_output |-> raw_output]

ConnectionError_(message) == [type |-> "ConnectionError_", message |-> message]

\* the five concrete variants of the local taxonomy
LocalVariants == {"CLINotFound", "ProcessError", "TransportTimeout",
                  "JSONDecodeError", "ConnectionError_"}

\* characters of raw_output that JSONDecodeError.__str__ shows
PreviewLen == 200

\* str(e): the __str__ of each local class; any other class renders its message
Str(e) ==
    CASE e.type = "ProcessError" ->
           e.message
           \o (IF e.exit_code # None
               THEN " | exit_code=" \o ToString(e.exit_code[1]) ELSE "")
           \o (IF e.stderr # None /\ e.stderr[1] # ""
               THEN " | stderr='" \o e.stderr[1] \o "'" ELSE "")
      [] e.type = "TransportTimeout" ->
           IF e.timeout_seconds > 0
           THEN e.message \o " | timeout_seconds=" \o ToString(e.timeout_seconds)
           ELSE e.message
      [] e.type = "JSONDecodeError" ->
           IF e.raw_output # None
           THEN LET raw == e.raw_output[1]
                    preview == IF Len(raw) > PreviewLen
                               THEN SubSeq(raw, 1, PreviewLen) \o "..."
                               ELSE raw
                IN e.message \o " | raw_output='" \o preview \o "'"
           ELSE e.message
      [] OTHER -> e.message

-----------------------------------------------------------------------------
(* output/schema.py *)

\* pydantic validation of the field errors: list[str]
ErrorsValid(errors) == \A i \in DOMAIN errors : errors[i] # None

\* CommandResult(...): the validated model as a record; errors arrives as a list
\* of optional strings and is stored as a list of strings
CommandResult(success, result, errors, session_id, usage, duration_ms) ==
    [success |-> success, result |-> result,
     errors |-> [i \in DOMAIN errors |-> errors[i][1]],
     session_id |-> session_id, usage |-> usage, duration_ms |-> duration_ms]

\* CommandResult.error(message)
CommandResultError(message) ==
    CommandResult(FALSE, None, <<Some(message)>>, None, None, 0)

\* CommandResult.ok(result, session_id, usage, duration_ms)
CommandResultOk(result, session_id, usage, duration_ms) ==
    CommandResult(TRUE, result, << >>, session_id, usage, duration_ms)

-----------------------------------------------------------------------------
(* Python strings and dicts as commands/answers.py uses them *)

UpperLetters == "ABCDEFGHIJKLMNOPQRSTUVWXYZ"
LowerLetters == "abcdefghijklmnopqrstuvwxyz"

\* str.lower() of a one-character string
LowerChar(c) ==
    IF \E i \in 1..Len(UpperLetters) : SubSeq(UpperLetters, i, i) = c
    THEN LET i == CHOOSE i \in 1..Len(UpperLetters) : SubSeq(UpperLetters, i, i) = c
         IN SubSeq(LowerLetters, i, i)
    ELSE c

\* s.lower()
RECURSIVE Lower(_)
Lower(s) ==
    IF Len(s) = 0 THEN ""
    ELSE LowerChar(SubSeq(s, 1, 1)) \o Lower(SubSeq(s, 2, Len(s)))

\* needle in hay (the empty string is in every string)
Contains(needle, hay) ==
    \E i \in 1..(Len(hay) - Len(needle) + 1) :
        SubSeq(hay, i, i + Len(needle) - 1) = needle

\* a dict is the sequence of its items [key, value] in insertion order
DictHas(d, k) == \E i \in DOMAIN d : d[i].key = k

\* d[k]
DictGet(d, k) == d[CHOOSE i \in DOMAIN d : d[i].key = k].value

\* d[k] = v: an existing key keeps its position
DictSet(d, k, v) ==
    IF DictHas(d, k)
    THEN [i \in DOMAIN d |->
              IF d[i].key = k THEN [key |-> k, value |-> v] ELSE d[i]]
    ELSE Append(d, [key |-> k, value |-> v])

-----------------------------------------------------------------------------
(* Outcomes of a call *)

NoOutcome == [kind |-> "none"]
Return(value) == [kind |-> "return", value |-> value]
Raise(exc) == [kind |-> "raise", exc |-> exc]

-----------------------------------------------------------------------------
(* commands/__init__.py, commands/engine.py and the command workflows *)

\* truth value of an optional number in "x or default"
Truthy(opt) == opt # None /\ opt[1] # 0

Commands == {"gsd:new-project", "gsd:plan-phase", "gsd:execute-phase"}

\* DEFAULT_TIMEOUTS.get(command, 600)
DefaultTimeout(command) ==
    CASE command = "gsd:new-project" -> 900
      [] command = "gsd:plan-phase" -> 600
      [] command = "gsd:execute-phase" -> 1200
      [] OTHER -> 600

\* effective_timeout = self.timeout or DEFAULT_TIMEOUTS.get(command, 600)
EffectiveTimeout(engine_timeout, command) ==
    IF Truthy(engine_timeout) THEN engine_timeout[1] ELSE DefaultTimeout(command)

Workflows == {"new_project", "plan_phase", "execute_phase"}

\* the command a workflow hands to run_gsd_command
WorkflowCommand(w) ==
    CASE w = "new_project" -> "gsd:new-project"
      [] w = "plan_phase" -> "gsd:plan-phase"
      [] w = "execute_phase" -> "gsd:execute-phase"

\* the timeout= argument a workflow gives to WorkflowEngine(...)
WorkflowEngineTimeout(w, timeout) ==
    CASE w = "new_project" -> timeout
      [] w = "plan_phase" -> IF Truthy(timeout) THEN timeout ELSE Some(600)
      [] w = "execute_phase" -> IF Truthy(timeout) THEN timeout ELSE Some(1200)

\* NEW_PROJECT_DEFAULTS, PLAN_PHASE_DEFAULTS and EXECUTE_PHASE_DEFAULTS
DefaultsTable(w) ==
    CASE w = "new_project" ->
           <<[key |-> "depth", value |-> "3"],
             [key |-> "parallelization", value |-> "Yes"],
             [key |-> "git", value |-> "Yes"],
             [key |-> "research", value |-> "Standard"],
             [key |-> "plan check", value |-> "Yes"],
             [key |-> "verif", value |-> "Yes"],
             [key |-> "model", value |-> "quality"]>>
      [] w = "plan_phase" ->
           <<[key |-> "context", value |-> "Skip"],
             [key |-> "confirm", value |-> "Yes"],
             [key |-> "approve", value |-> "Yes"],
             [key |-> "proceed", value |-> "Yes"]>>
      [] w = "execute_phase" ->
           <<[key |-> "approve", value |-> "approved"],
             [key |-> "approved", value |-> "approved"],
             [key |-> "checkpoint", value |-> "approved"],
             [key |-> "continue", value |-> "Yes"],
             [key |-> "proceed", value |-> "Yes"],
             [key |-> "select", value |-> "option-a"]>>

\* {**d, **items}: the items are stored into d from index i on
RECURSIVE DictUpdate(_, _, _)
DictUpdate(d, items, i) ==
    IF i > Len(items) THEN d
    ELSE DictUpdate(DictSet(d, items[i].key, items[i].value), items, i + 1)

\* MergePolicy filling the defaults into the caller's dict: the values are
\* the same, the caller's keys come first
MergePolicyOverridesFirst(table, answer_overrides) ==
    LET over == IF answer_overrides # None THEN answer_overrides[1] ELSE << >>
    IN DictUpdate(DictUpdate(over, table, 1), over, 1)

\* MergePolicy with the defaults stored over the caller's overrides
MergePolicyDefaultsWin(table, answer_overrides) ==
    DictUpdate(IF answer_overrides # None THEN answer_overrides[1] ELSE << >>,
               table, 1)

\* answer_map = {**DEFAULTS, **(answer_overrides or {})}
MergePolicy(table, answer_overrides) ==
    DictUpdate(table,
               IF answer_overrides # None THEN answer_overrides[1] ELSE << >>,
               1)

\* RunKwargs with the callback registered without the hook
RunKwargsCallbackOnly(has_answer_map) ==
    IF has_answer_map THEN {"can_use_tool"} ELSE {}

\* run_kwargs of run_gsd_command: both keys when an answer map is given
RunKwargs(has_answer_map) ==
    IF has_answer_map THEN {"can_use_tool", "hooks"} ELSE {}

\* what a workflow does with the outcome of engine.run_gsd_command, which itself
\* hands on the outcome of transport.run unchanged
WorkflowBoundary(w, out) ==
    IF w = "new_project" /\ out.kind = "raise"
       /\ IsInstance(out.exc.type, "Exception")
    THEN Return(CommandResultError(Str(out.exc)))
    ELSE out

-----------------------------------------------------------------------------
(* transport/client.py: ClaudeTransport.run *)

\* ExceptChain with the clause for CLIConnectionError placed first
ExceptChainConnectionFirst(e, cfg) ==
    IF IsInstance(e.type, "CLIConnectionError") THEN ConnectionError_(e.message)
    ELSE IF IsInstance(e.type, "CLINotFoundError") THEN CLINotFound(e.message)
    ELSE IF IsInstance(e.type, "SDKProcessError")
    THEN ProcessError(e.message, e.exit_code, e.stderr)
    ELSE IF IsInstance(e.type, "CLIJSONDecodeError")
    THEN JSONDecodeError(e.message,
                         IF "line" \in DOMAIN e THEN Some(e.line) ELSE None)
    ELSE IF IsInstance(e.type, "TimeoutError")
    THEN TransportTimeout("Claude Code subprocess timed out after "
                              \o ToString(cfg.timeout_seconds) \o "s",
                          cfg.timeout_seconds)
    ELSE e

\* ExceptChain with the timeout_seconds argument of TransportTimeout left out
ExceptChainDefaultSeconds(e, cfg) ==
    IF IsInstance(e.type, "CLINotFoundError") THEN CLINotFound(e.message)
    ELSE IF IsInstance(e.type, "SDKProcessError")
    THEN ProcessError(e.message, e.exit_code, e.stderr)
    ELSE IF IsInstance(e.type, "CLIJSONDecodeError")
    THEN JSONDecodeError(e.message,
                         IF "line" \in DOMAIN e THEN Some(e.line) ELSE None)
    ELSE IF IsInstance(e.type, "CLIConnectionError")
    THEN ConnectionError_(e.message)
    ELSE IF IsInstance(e.type, "TimeoutError")
    THEN TransportTimeout("Claude Code subprocess timed out after "
                              \o ToString(cfg.timeout_seconds) \o "s",
                          0)
    ELSE e

\* the except clauses of run(), in their order; an exception none of them
\* names leaves run() as it is
ExceptChain(e, cfg) ==
    IF IsInstance(e.type, "CLINotFoundError") THEN CLINotFound(e.message)
    ELSE IF IsInstance(e.type, "SDKProcessError")
    THEN ProcessError(e.message, e.exit_code, e.stderr)
    ELSE IF IsInstance(e.type, "CLIJSONDecodeError")
    THEN JSONDecodeError(e.message,
                         IF "line" \in DOMAIN e THEN Some(e.line) ELSE None)
    ELSE IF IsInstance(e.type, "CLIConnectionError")
    THEN ConnectionError_(e.message)
    ELSE IF IsInstance(e.type, "TimeoutError")
    THEN TransportTimeout("Claude Code subprocess timed out after "
                              \o ToString(cfg.timeout_seconds) \o "s",
                          cfg.timeout_seconds)
    ELSE e

\* what leaves run() when its try block ends with `raw`
Translate(raw, cfg) ==
    IF raw.kind = "raise" THEN Raise(ExceptChain(raw.exc, cfg)) ELSE raw

\* EnvelopeOf with duration_ms not handed to CommandResult
EnvelopeOfNoDuration(m) ==
    CommandResult(~m.is_error, m.result,
                  IF m.is_error THEN <<m.result>> ELSE << >>,
                  m.session_id, m.usage, 0)

\* the envelope run() builds from the result message m
EnvelopeOf(m) ==
    CommandResult(~m.is_error, m.result,
                  IF m.is_error THEN <<m.result>> ELSE << >>,
                  m.session_id, m.usage, m.duration_ms)

\* AfterLoop without the check for a missing result message
AfterLoopSilentSuccess(rm) ==
    IF rm = None
    THEN Return(CommandResult(TRUE, None, << >>, None, None, 0))
    ELSE IF ~ErrorsValid(IF rm[1].is_error THEN <<rm[1].result>> ELSE << >>)
    THEN Raise([type |-> "ValidationError",
                message |-> "1 validation error for CommandResult"])
    ELSE Return(EnvelopeOf(rm[1]))

\* the statements of run() after the async for: no result message raises
\* ProcessError, otherwise the envelope is built (pydantic rejects errors=[None])
AfterLoop(rm) ==
    IF rm = None
    THEN Raise(ProcessError("No result message received from Claude Code",
                            None, None))
    ELSE IF ~ErrorsValid(IF rm[1].is_error THEN <<rm[1].result>> ELSE << >>)
    THEN Raise([type |-> "ValidationError",
                message |-> "1 validation error for CommandResult"])
    ELSE Return(EnvelopeOf(rm[1]))

\* what leaves the entry point: run() itself, or the workflow around it
Boundary(ent, out) ==
    IF ent \in Workflows THEN WorkflowBoundary(ent, out) ELSE out

\* the try block of run r ends with `raw`: the except clauses, then the caller
Finish(r, raw, cfg, ent, how) ==
    /\ pc' = [pc EXCEPT ![r] = "done"]
    /\ try_outcome' = [try_outcome EXCEPT ![r] = raw]
    /\ ended' = [ended EXCEPT ![r] = how]
    /\ outcome' = [outcome EXCEPT ![r] = Translate(raw, cfg)]
    /\ final' = [final EXCEPT ![r] = Boundary(ent, Translate(raw, cfg))]

\* TransportConfig(timeout_seconds=...): the other fields keep their defaults
TransportConfig(timeout_seconds) ==
    [cwd |-> None, timeout_seconds |-> timeout_seconds]

\* os.getcwd()
GetCwd == "/w"

\* the value a caller gives when it overrides cwd for one call
OverrideCwd == "/w/app"

\* query_kwargs and the options object as run() builds them on an adapter
\* with configuration cfg: the per-call callback and hooks become keyword
\* arguments of query(), the options carry neither, an override of cwd goes to
\* the options in place of the adapter's, and the prompt is the string run()
\* was given
QueryArgs(cfg, kw) ==
    [keywords |-> {"prompt", "options"} \cup (kw \cap {"can_use_tool", "hooks"}),
     prompt |-> "str",
     options |-> [cwd |-> IF "cwd" \in kw THEN Some(OverrideCwd) ELSE cfg.cwd,
                  can_use_tool |-> None, hooks |-> None]]

\* TransportRun keeping an override of cwd in the configuration of the adapter
TransportRunStoresOverride(r, cfg, kw, ent) ==
    /\ pc[r] = "idle"
    /\ entry' = [entry EXCEPT ![r] = ent]
    /\ config' = IF "cwd" \in kw
                 THEN [q \in DOMAIN config |->
                          [(IF q = r THEN cfg ELSE config[q])
                               EXCEPT !.cwd = Some(OverrideCwd)]]
                 ELSE [config EXCEPT ![r] = cfg]
    /\ kwargs' = [kwargs EXCEPT ![r] = kw]
    /\ result_message' = [result_message EXCEPT ![r] = None]
    /\ elapsed' = [elapsed EXCEPT ![r] = 0]
    /\ deadline' = [deadline EXCEPT ![r] = cfg.timeout_seconds]
    /\ query_args' = [query_args EXCEPT ![r] = Some(QueryArgs(cfg, kw))]
    /\ IF QueryArgs(cfg, kw).keywords \subseteq SdkQueryParams
       THEN /\ pc' = [pc EXCEPT ![r] = "pumping"]
            /\ sessions' = [sessions EXCEPT ![r] = @ + 1]
            /\ UNCHANGED <<outcome, final, ended, try_outcome>>
       ELSE /\ UNCHANGED sessions
            /\ Finish(r, Raise([type |-> "TypeError",
                                message |-> "query() got an unexpected keyword argument"]),
                      cfg, ent, "call_rejected")
    /\ UNCHANGED <<nmsgs, emitted, last_arrival, stream, defaults>>
    /\ UNCHANGED <<answerVars, apiVars, registryVars>>

\* run(prompt, **kw) on an adapter with configuration cfg, entered through ent:
\* the deadline is armed and query() is called with query_kwargs
TransportRun(r, cfg, kw, ent) ==
    /\ pc[r] = "idle"
    /\ entry' = [entry EXCEPT ![r] = ent]
    /\ config' = [config EXCEPT ![r] = cfg]
    /\ kwargs' = [kwargs EXCEPT ![r] = kw]
    /\ result_message' = [result_message EXCEPT ![r] = None]
    /\ elapsed' = [elapsed EXCEPT ![r] = 0]
    /\ deadline' = [deadline EXCEPT ![r] = cfg.timeout_seconds]
    /\ query_args' = [query_args EXCEPT ![r] = Some(QueryArgs(cfg, kw))]
    /\ IF QueryArgs(cfg, kw).keywords \subseteq SdkQueryParams
       THEN /\ pc' = [pc EXCEPT ![r] = "pumping"]
            /\ sessions' = [sessions EXCEPT ![r] = @ + 1]
            /\ UNCHANGED <<outcome, final, ended, try_outcome>>
       ELSE /\ UNCHANGED sessions
            /\ Finish(r, Raise([type |-> "TypeError",
                                message |-> "query() got an unexpected keyword argument"]),
                      cfg, ent, "call_rejected")
    /\ UNCHANGED <<nmsgs, emitted, last_arrival, stream, defaults>>
    /\ UNCHANGED <<answerVars, apiVars, registryVars>>

\* a direct caller: transport.run(prompt, **kw) on its own adapter
StartRun(r, kw) ==
    /\ TransportRun(r, config[r], kw, "run")
    /\ UNCHANGED <<thread, workflow_args, engine_args>>

\* run_sync(prompt, **kw) called from a thread of kind th:
\* anyio.from_thread.run(self.run, prompt, **kw) takes positional arguments
\* only, and it raises RuntimeError in a thread that is no worker thread of an
\* event loop; in a worker thread it runs self.run on that loop
StartRunSync(r, kw, th) ==
    /\ pc[r] = "idle"
    /\ thread' = [thread EXCEPT ![r] = th]
    /\ IF kw # {} \/ th # "worker"
       THEN /\ pc' = [pc EXCEPT ![r] = "done"]
            /\ entry' = [entry EXCEPT ![r] = "run_sync"]
            /\ kwargs' = [kwargs EXCEPT ![r] = kw]
            /\ ended' = [ended EXCEPT ![r] = "bridge_failure"]
            /\ final' = [final EXCEPT ![r] =
                   IF kw # {}
                   THEN Raise([type |-> "TypeError",
                               message |-> "run() got an unexpected keyword argument"])
                   ELSE Raise([type |-> "RuntimeError",
                               message |-> "This function can only be run from an AnyIO worker thread"])]
            /\ UNCHANGED <<config, elapsed, nmsgs, result_message, outcome,
                           emitted, deadline, last_arrival, stream, query_args,
                           defaults, sessions,
                   try_outcome>>
            /\ UNCHANGED <<answerVars, apiVars, registryVars>>
       ELSE TransportRun(r, config[r], kw, "run_sync")
    /\ UNCHANGED <<workflow_args, engine_args>>

\* engine.run_gsd_command(command, answer_map=answer_map) on an engine built
\* with timeout=engine_timeout, entered through ent: the engine builds a new
\* adapter with the effective timeout and runs the prompt on it
RunGsdCommand(r, engine_timeout, command, answer_map_arg, ent) ==
    /\ engine_args' = [engine_args EXCEPT ![r] =
                           Some([timeout |-> engine_timeout, command |-> command,
                                 answer_map |-> answer_map_arg])]
    /\ TransportRun(r,
                    [TransportConfig(EffectiveTimeout(engine_timeout, command))
                         EXCEPT !.cwd = Some(GetCwd)],
                    RunKwargs(answer_map_arg # None), ent)

\* a direct caller of the engine
StartEngine(r, engine_timeout, command, answer_map_arg) ==
    /\ RunGsdCommand(r, engine_timeout, command, answer_map_arg, "run_gsd_command")
    /\ UNCHANGED <<thread, workflow_args>>

\* a command workflow: it merges the policy, builds an engine and runs its
\* command on it
StartWorkflow(r, w, timeout, answer_overrides) ==
    /\ workflow_args' = [workflow_args EXCEPT ![r] =
                             Some([workflow |-> w, timeout |-> timeout,
                                   answer_overrides |-> answer_overrides])]
    /\ RunGsdCommand(r, WorkflowEngineTimeout(w, timeout), WorkflowCommand(w),
                     Some(MergePolicy(defaults[w], answer_overrides)), w)
    /\ UNCHANGED thread

Pumping(r) == pc[r] = "pumping" /\ elapsed[r] < deadline[r]

\* Deliver with the deadline armed anew by every message
DeliverResetsDeadline(r, m) ==
    /\ Pumping(r)
    /\ nmsgs[r] < MaxMsgs
    /\ nmsgs' = [nmsgs EXCEPT ![r] = @ + 1]
    /\ result_message' =
           [result_message EXCEPT ![r] =
                IF m.type = "ResultMessage" THEN Some(m) ELSE @]
    /\ emitted' = [emitted EXCEPT ![r] =
                       IF m \in ResultMessages THEN Some(m) ELSE @]
    /\ stream' = [stream EXCEPT ![r] = Append(@, m)]
    /\ last_arrival' = [last_arrival EXCEPT ![r] = elapsed[r]]
    /\ deadline' = [deadline EXCEPT ![r] = elapsed[r] + config[r].timeout_seconds]
    /\ UNCHANGED <<pc, entry, kwargs, config, elapsed, outcome, final, ended,
                   thread, workflow_args, engine_args, query_args,
                   defaults, sessions,
                   try_outcome>>
    /\ UNCHANGED <<answerVars, apiVars, registryVars>>

\* Deliver keeping the first result message instead of the last
DeliverKeepsFirstResult(r, m) ==
    /\ Pumping(r)
    /\ nmsgs[r] < MaxMsgs
    /\ nmsgs' = [nmsgs EXCEPT ![r] = @ + 1]
    /\ result_message' =
           [result_message EXCEPT ![r] =
                IF m.type = "ResultMessage" /\ @ = None THEN Some(m) ELSE @]
    /\ emitted' = [emitted EXCEPT ![r] =
                       IF m \in ResultMessages THEN Some(m) ELSE @]
    /\ stream' = [stream EXCEPT ![r] = Append(@, m)]
    /\ last_arrival' = [last_arrival EXCEPT ![r] = elapsed[r]]
    /\ UNCHANGED <<pc, entry, kwargs, config, elapsed, outcome, final, ended,
                   deadline, thread, workflow_args, engine_args, query_args,
                   defaults, sessions,
                   try_outcome>>
    /\ UNCHANGED <<answerVars, apiVars, registryVars>>

\* the stream yields message m and the loop body consumes it
Deliver(r, m) ==
    /\ Pumping(r)
    /\ nmsgs[r] < MaxMsgs
    /\ nmsgs' = [nmsgs EXCEPT ![r] = @ + 1]
    /\ result_message' =
           [result_message EXCEPT ![r] =
                IF m.type = "ResultMessage" THEN Some(m) ELSE @]
    /\ emitted' = [emitted EXCEPT ![r] =
                       IF m \in ResultMessages THEN Some(m) ELSE @]
    /\ stream' = [stream EXCEPT ![r] = Append(@, m)]
    /\ last_arrival' = [last_arrival EXCEPT ![r] = elapsed[r]]
    /\ UNCHANGED <<pc, entry, kwargs, config, elapsed, outcome, final, ended,
                   deadline, thread, workflow_args, engine_args, query_args,
                   defaults, sessions,
                   try_outcome>>
    /\ UNCHANGED <<answerVars, apiVars, registryVars>>

\* the stream ends before the deadline
StreamEnds(r) ==
    /\ Pumping(r)
    /\ Finish(r, AfterLoop(result_message[r]), config[r], entry[r], "stream_end")
    /\ UNCHANGED <<entry, kwargs, config, elapsed, nmsgs, result_message,
                   emitted, deadline, last_arrival, stream, thread,
                   workflow_args, engine_args, query_args, defaults,
                   sessions>>
    /\ UNCHANGED <<answerVars, apiVars, registryVars>>

\* the runtime raises e while the session is started or pumped
SdkRaises(r, e) ==
    /\ Pumping(r)
    /\ Finish(r, Raise(e), config[r], entry[r], "sdk_failure")
    /\ UNCHANGED <<entry, kwargs, config, elapsed, nmsgs, result_message,
                   emitted, deadline, last_arrival, stream, thread,
                   workflow_args, engine_args, query_args, defaults,
                   sessions>>
    /\ UNCHANGED <<answerVars, apiVars, registryVars>>

\* d seconds pass while the loop waits for the next message
Tick(r, d) ==
    /\ Pumping(r)
    /\ elapsed' = [elapsed EXCEPT ![r] =
                       IF @ + d > deadline[r] THEN deadline[r] ELSE @ + d]
    /\ UNCHANGED <<pc, entry, kwargs, config, nmsgs, result_message, outcome,
                   final, emitted, ended, deadline, last_arrival, stream,
                   thread, workflow_args, engine_args, query_args, defaults, sessions,
                   try_outcome>>
    /\ UNCHANGED <<answerVars, apiVars, registryVars>>

\* DeadlineExpires returning the envelope of a result message already seen
DeadlineExpiresSalvages(r) ==
    /\ pc[r] = "pumping"
    /\ elapsed[r] >= deadline[r]
    /\ Finish(r,
              IF result_message[r] # None THEN AfterLoop(result_message[r])
              ELSE Raise([type |-> "TimeoutError", message |-> ""]),
              config[r], entry[r], "deadline")
    /\ UNCHANGED <<entry, kwargs, config, elapsed, nmsgs, result_message,
                   emitted, deadline, last_arrival, stream, thread,
                   workflow_args, engine_args, query_args, defaults,
                   sessions>>
    /\ UNCHANGED <<answerVars, apiVars, registryVars>>

\* asyncio.timeout() expires: the loop is cancelled and TimeoutError raised
DeadlineExpires(r) ==
    /\ pc[r] = "pumping"
    /\ elapsed[r] >= deadline[r]
    /\ Finish(r, Raise([type |-> "TimeoutError", message |-> ""]),
              config[r], entry[r], "deadline")
    /\ UNCHANGED <<entry, kwargs, config, elapsed, nmsgs, result_message,
                   emitted, deadline, last_arrival, stream, thread,
                   workflow_args, engine_args, query_args, defaults,
                   sessions>>
    /\ UNCHANGED <<answerVars, apiVars, registryVars>>

-----------------------------------------------------------------------------
(* api.py: the public API functions, and state/registry.py as they use it *)

ApiWorkflowFunctions == {"create_project", "plan_phase", "execute_phase"}

\* the workflow an API function wraps
ApiWorkflow(f) ==
    CASE f = "create_project" -> "new_project"
      [] f = "plan_phase" -> "plan_phase"
      [] f = "execute_phase" -> "execute_phase"

\* the parameters of the workflow functions
WorkflowParams(w) ==
    (IF w = "new_project" THEN {"idea"} ELSE {"phase"})
    \cup {"project_dir", "verbose", "quiet", "timeout", "answer_overrides"}

\* the keyword arguments an API function calls its workflow with
ApiWorkflowKeywords(f) ==
    (IF f = "create_project" THEN {"idea"} ELSE {"phase"})
    \cup {"project_dir", "verbose", "quiet", "timeout", "answer_overrides",
          "resume_session_id"}

\* the event type an API function emits when its result has success = true
SuccessEvent(f) ==
    CASE f = "plan_phase" -> "PLAN_COMPLETE"
      [] f = "execute_phase" -> "PHASE_COMPLETE"
      [] OTHER -> "PROGRESS_UPDATE"

\* bus.emit_async(type, {"command": f, ...}): the event the bus receives
Event(type, f) == [type |-> type, command |-> f]

\* the `if result.success: ... else: ...` that ends the functions wrapping a
\* workflow: one event chosen by the result
OutcomeEvents(f, result) ==
    IF result.success THEN <<Event(SuccessEvent(f), f)>>
    ELSE <<Event("ERROR", f)>>

\* create_project, plan_phase, execute_phase: the workflow is called with the
\* keywords of ApiWorkflowKeywords; a keyword it does not take makes the call
\* raise TypeError, otherwise the workflow ends with wf_outcome, and an
\* exception leaves the API function before any event is emitted
ApiWorkflowCall(f, wf_outcome) ==
    LET out == IF ApiWorkflowKeywords(f) \subseteq WorkflowParams(ApiWorkflow(f))
               THEN wf_outcome
               ELSE Raise([type |-> "TypeError",
                           message |-> "got an unexpected keyword argument 'resume_session_id'"])
    IN /\ api_call' = [function |-> f]
       /\ api_result' = out
       /\ events' = IF out.kind = "return" THEN OutcomeEvents(f, out.value)
                    ELSE << >>
       /\ UNCHANGED <<registry, defaults>>
       /\ UNCHANGED <<transportVars, answerVars, registryVars>>

\* what status_workflow(project_dir) does on a directory of the given kind:
\* a GSD project, a directory without .planning/, or a project whose
\* config.json is no JSON (json.loads raises, and only FileNotFoundError is
\* caught)
StatusWorkflow(dir_kind) ==
    CASE dir_kind = "project" ->
           Return(CommandResultOk(Some("summary"), None, None, 0))
      [] dir_kind = "no_planning" ->
           Return(CommandResultError("No .planning/ directory found"))
      [] dir_kind = "bad_config" ->
           Raise([type |-> "JSONDecodeError", message |-> "Expecting value"])

\* get_status(project_dir=..., event_bus=bus)
GetStatus(dir_kind) ==
    LET out == StatusWorkflow(dir_kind)
    IN /\ api_call' = [function |-> "get_status", project_dir |-> dir_kind]
       /\ api_result' = out
       /\ events' = IF out.kind = "return"
                    THEN OutcomeEvents("get_status", out.value) ELSE << >>
       /\ UNCHANGED <<registry, defaults>>
       /\ UNCHANGED <<transportVars, answerVars, registryVars>>

\* the file system the registry looks at: two GSD projects, a directory
\* without .planning/, a path that does not exist and a second spelling of
\* the first project
Paths == {"/w/app", "/w/lib", "/w/plain", "/w/missing", "/w/lib/../app"}

PathExists(p) == p # "/w/missing"

\* Path(p).resolve()
Resolve(p) == IF p = "/w/lib/../app" THEN "/w/app" ELSE p

HasPlanning(resolved) == resolved \in {"/w/app", "/w/lib"}

\* resolved.name
BaseName(resolved) ==
    CASE resolved = "/w/app" -> "app"
      [] resolved = "/w/lib" -> "lib"
      [] resolved = "/w/plain" -> "plain"
      [] OTHER -> "missing"

\* get_project_summary(resolved) inside add(): the summary dict of a project
\* whose state files parse (its integer items), and an exception, which add()
\* turns into None, for one whose state files do not
StateSnapshot(resolved) ==
    IF resolved = "/w/app"
    THEN Some(<<[key |-> "current_phase", value |-> 2],
                [key |-> "requirements_total", value |-> 5]>>)
    ELSE None

\* the model class RegistryEntry: last_checked_at defaults to None
RegistryEntry(name, path, registered_at, last_known_state) ==
    [name |-> name, path |-> path, registered_at |-> registered_at,
     last_checked_at |-> None, last_known_state |-> last_known_state]

\* the version field of the model class ProjectRegistryData
RegistryVersion == 1

\* JSON values
JNull == [json |-> "null"]
JString(s) == [json |-> "string", value |-> s]
JNumber(n) == [json |-> "number", value |-> n]
JObject(members) == [json |-> "object", members |-> members]

\* an optional string as JSON, and back
JOptString(opt) == IF opt = None THEN JNull ELSE JString(opt[1])
OptStringOf(j) == IF j.json = "null" THEN None ELSE Some(j.value)

\* a dict of integers as a JSON object, and back
JIntDict(d) ==
    JObject([i \in DOMAIN d |-> [key |-> d[i].key, value |-> JNumber(d[i].value)]])
IntDictOf(j) ==
    [i \in DOMAIN j.members |->
        [key |-> j.members[i].key, value |-> j.members[i].value.value]]

\* a RegistryEntry as the JSON object pydantic dumps, and the entry pydantic
\* validates from such an object
EntryToJson(item) ==
    JObject(<<[key |-> "name", value |-> JString(item.name)],
              [key |-> "path", value |-> JString(item.path)],
              [key |-> "registered_at", value |-> JString(item.registered_at)],
              [key |-> "last_checked_at", value |-> JOptString(item.last_checked_at)],
              [key |-> "last_known_state",
               value |-> IF item.last_known_state = None THEN JNull
                         ELSE JIntDict(item.last_known_state[1])]>>)
EntryFromJson(j) ==
    LET state == DictGet(j.members, "last_known_state")
    IN [name |-> DictGet(j.members, "name").value,
        path |-> DictGet(j.members, "path").value,
        registered_at |-> DictGet(j.members, "registered_at").value,
        last_checked_at |-> OptStringOf(DictGet(j.members, "last_checked_at")),
        last_known_state |-> IF state.json = "null" THEN None
                             ELSE Some(IntDictOf(state))]

\* self._data.model_dump_json(): the registry data as JSON, the projects in
\* the order of the dict
ModelDumpJson(data) ==
    JObject(<<[key |-> "version", value |-> JNumber(RegistryVersion)],
              [key |-> "projects",
               value |-> JObject([i \in DOMAIN data |->
                                     [key |-> data[i].key,
                                      value |-> EntryToJson(data[i].value)]])]>>)

\* ProjectRegistryData.model_validate_json(content).projects
ModelValidateJson(content) ==
    LET objs == DictGet(content.members, "projects").members
    IN [i \in DOMAIN objs |->
           [key |-> objs[i].key, value |-> EntryFromJson(objs[i].value)]]

\* ProjectRegistry.load(): no file gives an empty registry, a file that is no
\* valid registry raises ValueError
RegistryLoad(reg) ==
    IF reg.content = None THEN Return(<< >>)
    ELSE IF reg.corrupt
    THEN Raise([type |-> "ValueError",
                message |-> "Invalid or corrupt registry JSON"])
    ELSE Return(ModelValidateJson(reg.content[1]))

\* the dict d without the key k
DictDel(d, k) ==
    LET keep == {i \in DOMAIN d : d[i].key # k}
        Before(i) == Cardinality({j \in keep : j < i})
    IN [n \in 1..Cardinality(keep) |->
            d[CHOOSE i \in keep : Before(i) = n - 1]]

\* RegistryAdd without the check of the resolved path
RegistryAddNamesOnly(data, path, name, now) ==
    LET resolved == Resolve(path)
        entry_name == IF name # None THEN name[1] ELSE BaseName(resolved)
    IN IF ~PathExists(path)
       THEN Raise([type |-> "ValueError", message |-> "Path does not exist"])
       ELSE IF ~HasPlanning(resolved)
       THEN Raise([type |-> "ValueError",
                   message |-> "No .planning/ directory found"])
       ELSE IF DictHas(data, entry_name)
       THEN Raise([type |-> "ValueError",
                   message |-> "A project named '" \o entry_name
                                   \o "' already exists in the registry."])
       ELSE Return(RegistryEntry(entry_name, resolved, now,
                                 StateSnapshot(resolved)))

\* the checks of registry.add(path, name=name) on the projects it holds, at
\* time now: the entry to add, or the ValueError of the first check that fails
RegistryAdd(data, path, name, now) ==
    LET resolved == Resolve(path)
        entry_name == IF name # None THEN name[1] ELSE BaseName(resolved)
    IN IF ~PathExists(path)
       THEN Raise([type |-> "ValueError", message |-> "Path does not exist"])
       ELSE IF ~HasPlanning(resolved)
       THEN Raise([type |-> "ValueError",
                   message |-> "No .planning/ directory found"])
       ELSE IF DictHas(data, entry_name)
       THEN Raise([type |-> "ValueError",
                   message |-> "A project named '" \o entry_name
                                   \o "' already exists in the registry."])
       ELSE IF \E i \in DOMAIN data : data[i].value.path = resolved
       THEN Raise([type |-> "ValueError",
                   message |-> "Path '" \o resolved \o "' is already registered"])
       ELSE Return(RegistryEntry(entry_name, resolved, now,
                                 StateSnapshot(resolved)))

\* registry.save() when the file cannot be written
SaveFailure == Raise([type |-> "OSError", message |-> "No space left on device"])

\* the registry file after save() of data: _atomic_write_json replaces the
\* file, or leaves it as it was when the write fails
Saved(reg, data, save_ok) ==
    IF save_ok THEN [corrupt |-> FALSE, content |-> Some(ModelDumpJson(data))]
    ELSE reg

\* add_project(path, name=name, event_bus=bus) at time now; save_ok tells
\* whether the registry file can be written
AddProject(path, name, save_ok, now) ==
    LET loaded == RegistryLoad(registry)
        added == IF loaded.kind = "raise" THEN loaded
                 ELSE RegistryAdd(loaded.value, path, name, now)
        out == IF added.kind = "return" /\ ~save_ok THEN SaveFailure ELSE added
    IN /\ api_call' = [function |-> "add_project", path |-> path, name |-> name]
       /\ IF out.kind = "return"
          THEN /\ registry' = Saved(registry,
                                    DictSet(loaded.value, out.value.name, out.value),
                                    TRUE)
               /\ events' = <<Event("PROGRESS_UPDATE", "add_project")>>
               /\ api_result' = Return(CommandResultOk(Some(out.value.name),
                                                       None, None, 0))
          ELSE /\ registry' = registry
               /\ events' = <<Event("ERROR", "add_project")>>
               /\ api_result' = Return(CommandResultError(Str(out.exc)))
       /\ UNCHANGED defaults
       /\ UNCHANGED <<transportVars, answerVars, registryVars>>

\* list_projects(event_bus=bus)
ListProjects ==
    LET loaded == RegistryLoad(registry)
    IN /\ api_call' = [function |-> "list_projects"]
       /\ IF loaded.kind = "return"
          THEN /\ events' = <<Event("PROGRESS_UPDATE", "list_projects")>>
               /\ api_result' =
                      Return(CommandResultOk(
                                 Some([i \in DOMAIN loaded.value |->
                                           loaded.value[i].value]),
                                 None, None, 0))
          ELSE /\ events' = <<Event("ERROR", "list_projects")>>
               /\ api_result' = Return(CommandResultError(Str(loaded.exc)))
       /\ UNCHANGED <<registry, defaults>>
       /\ UNCHANGED <<transportVars, answerVars, registryVars>>

\* remove_project(name, event_bus=bus): a name that is not registered returns
\* an error result from the else branch, which emits nothing
RemoveProject(name, save_ok) ==
    LET loaded == RegistryLoad(registry)
        removed == loaded.kind = "return" /\ DictHas(loaded.value, name)
    IN /\ api_call' = [function |-> "remove_project", name |-> name]
       /\ IF loaded.kind = "raise"
          THEN /\ events' = <<Event("ERROR", "remove_project")>>
               /\ api_result' = Return(CommandResultError(Str(loaded.exc)))
               /\ registry' = registry
          ELSE IF removed /\ ~save_ok
          THEN /\ events' = <<Event("ERROR", "remove_project")>>
               /\ api_result' = Return(CommandResultError(Str(SaveFailure.exc)))
               /\ registry' = registry
          ELSE IF removed
          THEN /\ events' = <<Event("PROGRESS_UPDATE", "remove_project")>>
               /\ api_result' = Return(CommandResultOk(Some(name), None, None, 0))
               /\ registry' = Saved(registry, DictDel(loaded.value, name), TRUE)
          ELSE /\ events' = << >>
               /\ api_result' =
                      Return(CommandResultError(
                                 "Project '" \o name \o "' not found in registry."))
               /\ registry' = registry
       /\ UNCHANGED defaults
       /\ UNCHANGED <<transportVars, answerVars, registryVars>>

-----------------------------------------------------------------------------
(* state/registry.py: the methods of a ProjectRegistry instance *)

\* ProjectRegistry.load(registry_path): a new instance holding what the file
\* holds; a corrupt file raises and the caller keeps the instance it had
RegistryLoadCall ==
    LET loaded == RegistryLoad(registry)
    IN /\ reg_call' = [method |-> "load"]
       /\ IF loaded.kind = "return"
          THEN /\ projects' = loaded.value
               /\ reg_result' = Return("ProjectRegistry")
          ELSE /\ projects' = projects
               /\ reg_result' = loaded
       /\ UNCHANGED <<defaults, transportVars, answerVars, apiVars>>

\* RegistryAddCall storing the entry before the resolved path is checked
RegistryAddCallStoresFirst(path, name, save_ok, now) ==
    LET checked == RegistryAdd(projects, path, name, now)
        unchecked == RegistryAddNamesOnly(projects, path, name, now)
        stored == IF unchecked.kind = "return"
                  THEN DictSet(projects, unchecked.value.name, unchecked.value)
                  ELSE projects
        saves == checked.kind = "return"
    IN /\ reg_call' = [method |-> "add", path |-> path, name |-> name,
                       saves |-> saves]
       /\ projects' = stored
       /\ registry' = IF saves THEN Saved(registry, stored, save_ok) ELSE registry
       /\ reg_result' = IF saves /\ ~save_ok THEN SaveFailure ELSE checked
       /\ UNCHANGED <<api_call, api_result, events>>
       /\ UNCHANGED <<defaults, transportVars, answerVars>>

\* registry.add(path, name=name) at time now: after the checks the entry is
\* stored under its name and the registry saved; save_ok tells whether the
\* registry file can be written
RegistryAddCall(path, name, save_ok, now) ==
    LET checked == RegistryAdd(projects, path, name, now)
        stored == IF checked.kind = "return"
                  THEN DictSet(projects, checked.value.name, checked.value)
                  ELSE projects
        saves == checked.kind = "return"
    IN /\ reg_call' = [method |-> "add", path |-> path, name |-> name,
                       saves |-> saves]
       /\ projects' = stored
       /\ registry' = IF saves THEN Saved(registry, stored, save_ok) ELSE registry
       /\ reg_result' = IF saves /\ ~save_ok THEN SaveFailure ELSE checked
       /\ UNCHANGED <<api_call, api_result, events>>
       /\ UNCHANGED <<defaults, transportVars, answerVars>>

\* RegistryRemoveCall without the save() after the deletion
RegistryRemoveCallNoSave(name, save_ok) ==
    LET found == DictHas(projects, name)
    IN /\ reg_call' = [method |-> "remove", name |-> name, saves |-> FALSE]
       /\ projects' = IF found THEN DictDel(projects, name) ELSE projects
       /\ registry' = registry
       /\ reg_result' = Return(found)
       /\ UNCHANGED <<api_call, api_result, events>>
       /\ UNCHANGED <<defaults, transportVars, answerVars>>

\* registry.remove(name): a name that is not registered returns False;
\* otherwise the entry is deleted, the registry saved and True returned
RegistryRemoveCall(name, save_ok) ==
    LET found == DictHas(projects, name)
        kept == IF found THEN DictDel(projects, name) ELSE projects
    IN /\ reg_call' = [method |-> "remove", name |-> name, saves |-> found]
       /\ projects' = kept
       /\ registry' = IF found THEN Saved(registry, kept, save_ok) ELSE registry
       /\ reg_result' = IF found /\ ~save_ok THEN SaveFailure ELSE Return(found)
       /\ UNCHANGED <<api_call, api_result, events>>
       /\ UNCHANGED <<defaults, transportVars, answerVars>>

\* registry.list_projects(): the entries in the order of the dict
RegistryListCall ==
    /\ reg_call' = [method |-> "list_projects"]
    /\ reg_result' = Return([i \in DOMAIN projects |-> projects[i].value])
    /\ UNCHANGED projects
    /\ UNCHANGED <<defaults, transportVars, answerVars, apiVars>>

-----------------------------------------------------------------------------
(* The specification of runs *)

\* timeout_seconds of the adapters direct callers construct
Timeouts == {300, 600}
\* the timeout= argument callers give to a workflow
TimeoutArgs == {None, Some(0), Some(300)}
\* seconds that pass in one step of the clock
TickChoices == {300}
\* per-call kwargs a direct caller may give
KwargChoices == SUBSET {"can_use_tool", "hooks"}

\* the answer_overrides= argument callers give to a workflow: none, an empty
\* dict, a key of NEW_PROJECT_DEFAULTS, a key of the two other tables with a
\* new key, and all three
OverrideChoices ==
    {None, Some(<< >>),
     Some(<<[key |-> "depth", value |-> "5"]>>),
     Some(<<[key |-> "proceed", value |-> "No"],
            [key |-> "custom", value |-> "val"]>>),
     Some(<<[key |-> "custom", value |-> "val"],
            [key |-> "depth", value |-> "5"],
            [key |-> "proceed", value |-> "No"]>>)}

\* the result messages of the streams of Spec: both values of every field
StreamResults ==
    {[type |-> "ResultMessage", is_error |-> FALSE, result |-> Some("payload"),
      session_id |-> "s1", usage |-> Some("usage1"), duration_ms |-> 42],
     [type |-> "ResultMessage", is_error |-> TRUE, result |-> Some("payload"),
      session_id |-> "s2", usage |-> None, duration_ms |-> 42],
     [type |-> "ResultMessage", is_error |-> TRUE, result |-> None,
      session_id |-> "s1", usage |-> None, duration_ms |-> 0],
     [type |-> "ResultMessage", is_error |-> FALSE, result |-> None,
      session_id |-> "s2", usage |-> Some("usage1"), duration_ms |-> 0]}

StreamMessages == StreamResults \cup OtherMessages

\* the run of the single-run specifications
SingleRun == {1}

Runs == DOMAIN pc

\* the state of the runs R before any call
InitTransportOn(R) ==
    /\ pc = [r \in R |-> "idle"]
    /\ entry = [r \in R |-> "none"]
    /\ kwargs = [r \in R |-> {}]
    /\ elapsed = [r \in R |-> 0]
    /\ nmsgs = [r \in R |-> 0]
    /\ result_message = [r \in R |-> None]
    /\ outcome = [r \in R |-> NoOutcome]
    /\ final = [r \in R |-> NoOutcome]
    /\ emitted = [r \in R |-> None]
    /\ ended = [r \in R |-> "no"]
    /\ deadline = [r \in R |-> 0]
    /\ last_arrival = [r \in R |-> 0]
    /\ stream = [r \in R |-> << >>]
    /\ thread = [r \in R |-> "none"]
    /\ engine_args = [r \in R |-> None]
    /\ query_args = [r \in R |-> None]
    /\ sessions = [r \in R |-> 0]
    /\ try_outcome = [r \in R |-> NoOutcome]
    /\ defaults = [w \in Workflows |-> DefaultsTable(w)]

\* no run of R has been started and no command workflow has been called
InitRunsOn(R) ==
    /\ InitTransportOn(R)
    /\ workflow_args = [r \in R |-> None]

InitRuns == InitRunsOn(SingleRun)

\* no callback has been built or invoked
InitCallback ==
    /\ answer_map = << >>
    /\ tool_call = [tool_name |-> "", tool_input |-> [command |-> ""]]
    /\ decision = NoOutcome
    /\ warnings = << >>

\* no ProjectRegistry instance is in use
InitRegistry ==
    /\ projects = << >>
    /\ reg_call = [method |-> "none"]
    /\ reg_result = NoOutcome

\* no API function has been called; the registry file does not exist
InitApi ==
    /\ registry = [corrupt |-> FALSE, content |-> None]
    /\ api_call = [function |-> "none"]
    /\ api_result = NoOutcome
    /\ events = << >>
    /\ InitRegistry

Init ==
    /\ InitRuns
    /\ config \in [SingleRun -> {TransportConfig(t) : t \in Timeouts}]
    /\ InitCallback
    /\ InitApi

Next ==
    \/ \E r \in Runs, kw \in KwargChoices : StartRun(r, kw)
    \/ \E r \in Runs, w \in Workflows, t \in TimeoutArgs, ov \in OverrideChoices :
           StartWorkflow(r, w, t, ov)
    \/ \E r \in Runs, m \in StreamMessages : Deliver(r, m)
    \/ \E r \in Runs : StreamEnds(r)
    \/ \E r \in Runs, e \in SdkFailures : SdkRaises(r, e)
    \/ \E r \in Runs, d \in TickChoices : Tick(r, d)
    \/ \E r \in Runs : DeadlineExpires(r)

Spec == Init /\ [][Next]_vars

\* time advances while a run waits in its loop, and an expired
\* asyncio.timeout() cancels the loop
RunFairness ==
    \A r \in SingleRun :
        /\ WF_vars(\E d \in TickChoices : Tick(r, d))
        /\ WF_vars(DeadlineExpires(r))

SpecLive == Init /\ [][Next]_vars /\ RunFairness

\* the commands callers give to the engine: the three of DEFAULT_TIMEOUTS and
\* the unknown one of test_unknown_command_uses_600_default
EngineCommands == Commands \cup {"gsd:unknown-command"}

\* the answer_map= argument callers give to run_gsd_command: none, an empty
\* policy and the one of test_answer_map_creates_callback
EngineAnswerMaps ==
    {None, Some(<< >>), Some(<<[key |-> "depth", value |-> "3"]>>)}

\* the messages of the streams of the engine's sessions
EngineMessages ==
    {[type |-> "ResultMessage", is_error |-> FALSE, result |-> Some("payload"),
      session_id |-> "s1", usage |-> None, duration_ms |-> 42],
     [type |-> "AssistantMessage"]}

InitEngine ==
    /\ InitRuns
    /\ config = [r \in SingleRun |-> TransportConfig(300)]
    /\ InitCallback
    /\ InitApi

NextEngine ==
    \/ \E r \in Runs, t \in TimeoutArgs, c \in EngineCommands,
            am \in EngineAnswerMaps : StartEngine(r, t, c, am)
    \/ \E r \in Runs, w \in Workflows, t \in TimeoutArgs, ov \in OverrideChoices :
           StartWorkflow(r, w, t, ov)
    \/ \E r \in Runs, m \in EngineMessages : Deliver(r, m)
    \/ \E r \in Runs : StreamEnds(r)
    \/ \E r \in Runs, d \in TickChoices : Tick(r, d)
    \/ \E r \in Runs : DeadlineExpires(r)

SpecEngine == InitEngine /\ [][NextEngine]_vars

\* the two concurrent calls of run_sync on one adapter
TwoRuns == {1, 2}

\* the threads a blocking caller may be: a thread of its own (threading.Thread,
\* the main thread) or a worker thread started by an event loop
ThreadKinds == {"plain", "worker"}

\* the session id of the session run r starts
SessionOf(r) == IF r = 1 THEN "s1" ELSE "s2"

\* the messages of the session of run r
SessionMessages(r) ==
    {[type |-> "ResultMessage", is_error |-> FALSE, result |-> Some("payload"),
      session_id |-> SessionOf(r), usage |-> None, duration_ms |-> 42],
     [type |-> "AssistantMessage"]}

\* both calls are made on the same adapter instance
InitSync ==
    /\ InitRunsOn(TwoRuns)
    /\ \E t \in Timeouts : config = [r \in TwoRuns |-> TransportConfig(t)]
    /\ InitCallback
    /\ InitApi

NextSync ==
    \/ \E r \in Runs, kw \in KwargChoices, th \in ThreadKinds :
           StartRunSync(r, kw, th)
    \/ \E r \in Runs : \E m \in SessionMessages(r) : Deliver(r, m)
    \/ \E r \in Runs : StreamEnds(r)
    \/ \E r \in Runs, d \in TickChoices : Tick(r, d)
    \/ \E r \in Runs : DeadlineExpires(r)

SpecSync == InitSync /\ [][NextSync]_vars

\* the per-call kwargs of the concurrent callers of run(): none, an override
\* of cwd, and an override together with a callback and hooks
ConcurrentKwargs == {{}, {"cwd"}, {"cwd", "can_use_tool", "hooks"}}

\* the failure the runtime raises in the concurrent runs
ConcurrentFailures ==
    {[type |-> "SDKProcessError", message |-> "Command failed",
      exit_code |-> Some(1), stderr |-> Some("boom")]}

\* two callers share one adapter, built with the default timeout and no
\* working directory
InitConcurrent ==
    /\ InitRunsOn(TwoRuns)
    /\ config = [r \in TwoRuns |-> TransportConfig(300)]
    /\ InitCallback
    /\ InitApi

NextConcurrent ==
    \/ \E r \in Runs, kw \in ConcurrentKwargs : StartRun(r, kw)
    \/ \E r \in Runs : \E m \in SessionMessages(r) :
           nmsgs[r] < MaxConcurrentMsgs /\ Deliver(r, m)
    \/ \E r \in Runs : StreamEnds(r)
    \/ \E r \in Runs, e \in ConcurrentFailures : SdkRaises(r, e)
    \/ \E r \in Runs, d \in TickChoices : Tick(r, d)
    \/ \E r \in Runs : DeadlineExpires(r)

SpecConcurrent == InitConcurrent /\ [][NextConcurrent]_vars

\* what a command workflow may end with: a success envelope, an error
\* envelope, or an exception
WorkflowOutcomes ==
    {Return(CommandResultOk(Some("payload"), Some("s1"), None, 42)),
     Return(CommandResultError("boom")),
     Raise(ProcessError("No result message received from Claude Code", None, None))}

\* the directories get_status is called on
DirKinds == {"project", "no_planning", "bad_config"}

\* the name= argument of add_project
NameArgs == {None, Some("app"), Some("other")}

\* the names remove_project is called with
RemoveNames == {"app", "lib", "other", "ghost"}

\* what datetime.now(timezone.utc).isoformat() returns
Timestamps == {"2026-02-22T12:00:00+00:00", "2026-02-23T12:00:00+00:00"}

\* the registry file is absent or corrupt when the first call is made
InitApiCalls ==
    /\ InitRuns
    /\ config = [r \in SingleRun |-> TransportConfig(300)]
    /\ InitCallback
    /\ registry \in {[corrupt |-> FALSE, content |-> None],
                     [corrupt |-> TRUE, content |-> Some(JString("{not json"))]}
    /\ api_call = [function |-> "none"]
    /\ api_result = NoOutcome
    /\ events = << >>
    /\ InitRegistry

NextApi ==
    \/ \E f \in ApiWorkflowFunctions, o \in WorkflowOutcomes : ApiWorkflowCall(f, o)
    \/ \E k \in DirKinds : GetStatus(k)
    \/ \E p \in Paths, n \in NameArgs, ok \in BOOLEAN, now \in Timestamps :
           AddProject(p, n, ok, now)
    \/ ListProjects
    \/ \E n \in RemoveNames, ok \in BOOLEAN : RemoveProject(n, ok)

SpecApi == InitApiCalls /\ [][NextApi]_vars

\* a caller holds an empty ProjectRegistry; its file is absent, or is no
\* valid registry
InitRegistryCalls ==
    /\ InitRuns
    /\ config = [r \in SingleRun |-> TransportConfig(300)]
    /\ InitCallback
    /\ registry \in {[corrupt |-> FALSE, content |-> None],
                     [corrupt |-> TRUE, content |-> Some(JString("{not json"))]}
    /\ api_call = [function |-> "none"]
    /\ api_result = NoOutcome
    /\ events = << >>
    /\ InitRegistry

NextRegistry ==
    \/ RegistryLoadCall
    \/ \E p \in Paths, n \in NameArgs, ok \in BOOLEAN, now \in Timestamps :
           RegistryAddCall(p, n, ok, now)
    \/ \E n \in RemoveNames, ok \in BOOLEAN : RegistryRemoveCall(n, ok)
    \/ RegistryListCall

SpecRegistry == InitRegistryCalls /\ [][NextRegistry]_vars

-----------------------------------------------------------------------------
(* Properties of ClaudeTransport.run *)

\* C1: a stream that ends before the deadline without a terminal result
\* message makes run() raise ProcessError; no envelope is returned
NoResultRaisesProcessError ==
    \A r \in Runs :
        (pc[r] = "done" /\ ended[r] = "stream_end" /\ emitted[r] = None)
        => /\ outcome[r].kind = "raise"
           /\ outcome[r].exc.type = "ProcessError"

\* a stream of non-result messages has ended and ProcessError was raised
NoResultWitness ==
    \E r \in Runs :
        /\ pc[r] = "done" /\ ended[r] = "stream_end" /\ emitted[r] = None
        /\ nmsgs[r] = 2
        /\ outcome[r].kind = "raise"
        /\ outcome[r].exc.type = "ProcessError"

\* C2: when the deadline expires before any terminal result message has
\* arrived, run() raises TransportTimeout whose timeout_seconds is the
\* adapter's configured timeout, and returns no envelope
DeadlineRaisesConfiguredTimeout ==
    \A r \in Runs :
        (pc[r] = "done" /\ ended[r] = "deadline" /\ emitted[r] = None)
        => /\ outcome[r].kind = "raise"
           /\ outcome[r].exc.type = "TransportTimeout"
           /\ outcome[r].exc.timeout_seconds = config[r].timeout_seconds

\* the deadline of a 600 second adapter expired with no result message seen
DeadlineWitness ==
    \E r \in Runs :
        /\ pc[r] = "done" /\ ended[r] = "deadline" /\ emitted[r] = None
        /\ nmsgs[r] > 0
        /\ config[r].timeout_seconds = 600
        /\ outcome[r].kind = "raise"
        /\ outcome[r].exc.type = "TransportTimeout"
        /\ outcome[r].exc.timeout_seconds = 600

\* C3: the envelope run() returns is built from the terminal result message m
\* the stream emitted: success = not m.is_error, result = m.result,
\* errors = [m.result] if m.is_error else [], and session_id, usage and
\* duration_ms are m's
EnvelopeCopiesResultMessage ==
    \A r \in Runs :
        outcome[r].kind = "return"
        => /\ emitted[r] # None
           /\ LET m == emitted[r][1]
                  env == outcome[r].value
              IN /\ env.success = ~m.is_error
                 /\ env.result = m.result
                 /\ m.is_error => env.errors = <<m.result[1]>>
                 /\ ~m.is_error => env.errors = << >>
                 /\ env.session_id = m.session_id
                 /\ env.usage = m.usage
                 /\ env.duration_ms = m.duration_ms

\* a run completed on a result message with is_error set, after an earlier
\* result message, and returned its envelope
EnvelopeWitness ==
    \E r \in Runs :
        /\ outcome[r].kind = "return"
        /\ nmsgs[r] = 3
        /\ emitted[r][1].is_error
        /\ emitted[r][1].session_id = "s2"
        /\ emitted[r][1].duration_ms = 42
        /\ outcome[r].value.errors = <<"payload">>

\* C4: every envelope that leaves an entry point with success = false has a
\* non-empty errors list and a null result
FailedEnvelopeHasErrorsAndNoResult ==
    \A r \in Runs :
        (final[r].kind = "return" /\ ~final[r].value.success)
        => /\ Len(final[r].value.errors) > 0
           /\ final[r].value.result = None

\* C5: whatever the runtime raises while the session is started or pumped,
\* what leaves run() is one of the five local variants
OnlyLocalVariantsLeaveRun ==
    \A r \in Runs :
        (pc[r] = "done" /\ ended[r] = "sdk_failure")
        => /\ outcome[r].kind = "raise"
           /\ outcome[r].exc.type \in LocalVariants

\* C6: when the engine or the transport raises during a command workflow, the
\* workflow returns an envelope with success = false and a non-empty errors list
WorkflowReturnsErrorEnvelope ==
    \A r \in Runs :
        (entry[r] \in Workflows /\ outcome[r].kind = "raise")
        => /\ final[r].kind = "return"
           /\ ~final[r].value.success
           /\ Len(final[r].value.errors) > 0

\* C16: the deadline bounds the whole loop: a run never pumps for longer
\* than the configured timeout after the loop started, every message it
\* consumes arrived before that time, and a run stopped by the deadline
\* stopped at exactly that time, whenever its last message arrived
DeadlineBoundsWholeLoop ==
    \A r \in Runs :
        /\ pc[r] # "idle" => elapsed[r] <= config[r].timeout_seconds
        /\ nmsgs[r] > 0 => last_arrival[r] < config[r].timeout_seconds
        /\ (pc[r] = "done" /\ ended[r] = "deadline")
           => elapsed[r] = config[r].timeout_seconds

\* a run with a timeout of 600 consumed messages, the last of them 300 seconds
\* after the loop started, and was stopped by the deadline at 600
LateMessageWitness ==
    \E r \in Runs :
        /\ pc[r] = "done" /\ ended[r] = "deadline"
        /\ config[r].timeout_seconds = 600
        /\ nmsgs[r] >= 2
        /\ last_arrival[r] = 300
        /\ elapsed[r] = 600
        /\ outcome[r].kind = "raise"
        /\ outcome[r].exc.type = "TransportTimeout"

\* the last ResultMessage of a sequence of messages, None when it has none
LastResultOf(msgs) ==
    LET at == {i \in DOMAIN msgs : msgs[i].type = "ResultMessage"}
    IN IF at = {} THEN None
       ELSE Some(msgs[CHOOSE i \in at : \A j \in at : j <= i])

\* C17: every message the session emitted has been consumed, the loop holds
\* the last result message of the messages emitted so far, and a run that
\* completes returns the envelope of that message, whatever precedes or
\* follows it in the stream
LastResultMessageIsAuthoritative ==
    \A r \in Runs :
        /\ nmsgs[r] = Len(stream[r])
        /\ result_message[r] = LastResultOf(stream[r])
        /\ (pc[r] = "done" /\ ended[r] = "stream_end"
            /\ outcome[r].kind = "return")
           => /\ LastResultOf(stream[r]) # None
              /\ outcome[r].value = EnvelopeOf(LastResultOf(stream[r])[1])

\* a stream of a result message, a different result message and a message of
\* another kind completed with the envelope of the second
LastResultWitness ==
    \E r \in Runs :
        /\ pc[r] = "done" /\ ended[r] = "stream_end"
        /\ Len(stream[r]) = 3
        /\ stream[r][1].type = "ResultMessage"
        /\ stream[r][2].type = "ResultMessage"
        /\ stream[r][3].type = "AssistantMessage"
        /\ stream[r][1].session_id # stream[r][2].session_id
        /\ outcome[r].kind = "return"
        /\ outcome[r].value.session_id = stream[r][2].session_id

\* C23: no partial result is salvaged: when the deadline expires while the
\* stream is open, run() raises TransportTimeout and returns no envelope, also
\* when a result message had been received before; an envelope is returned
\* only when the stream ended before the deadline
NoResultSalvagedOnTimeout ==
    \A r \in Runs :
        pc[r] = "done"
        => /\ ended[r] = "deadline"
              => /\ outcome[r].kind = "raise"
                 /\ outcome[r].exc.type = "TransportTimeout"
           /\ outcome[r].kind = "return" => ended[r] = "stream_end"

\* the deadline expired after a successful result message had been received
SalvageWitness ==
    \E r \in Runs :
        /\ pc[r] = "done" /\ ended[r] = "deadline"
        /\ result_message[r] # None
        /\ ~result_message[r][1].is_error
        /\ result_message[r][1].result # None
        /\ outcome[r].kind = "raise"
        /\ outcome[r].exc.type = "TransportTimeout"

\* C24: a native failure is never swallowed into a returned envelope, and
\* each kind leaves run() as its variant with its context: CLI-not-found as
\* CLINotFound (not ConnectionError_, although the runtime derives it from its
\* connection error), a process error as ProcessError with the same exit_code
\* and stderr, a JSON decode error as JSONDecodeError with the offending line
\* as raw_output, a connection error as ConnectionError_, a time-out as
\* TransportTimeout
NativeFailureTranslatedWithContext ==
    \A r \in Runs :
        (pc[r] = "done" /\ try_outcome[r].kind = "raise")
        => /\ outcome[r].kind = "raise"
           /\ LET e == try_outcome[r].exc
                  x == outcome[r].exc
              IN /\ e.type = "CLINotFoundError" => x.type = "CLINotFound"
                 /\ e.type = "SDKProcessError"
                    => /\ x.type = "ProcessError"
                       /\ x.exit_code = e.exit_code
                       /\ x.stderr = e.stderr
                 /\ e.type = "CLIJSONDecodeError"
                    => /\ x.type = "JSONDecodeError"
                       /\ x.raw_output = Some(e.line)
                 /\ e.type = "CLIConnectionError" => x.type = "ConnectionError_"
                 /\ e.type = "TimeoutError" => x.type = "TransportTimeout"

\* the runtime reported that the CLI is missing and CLINotFound left run()
NotFoundWitness ==
    \E r \in Runs :
        /\ pc[r] = "done" /\ ended[r] = "sdk_failure"
        /\ try_outcome[r].kind = "raise"
        /\ try_outcome[r].exc.type = "CLINotFoundError"
        /\ IsInstance(try_outcome[r].exc.type, "CLIConnectionError")
        /\ outcome[r].kind = "raise"
        /\ outcome[r].exc.type = "CLINotFound"

\* the outcome run r has when it runs alone on an adapter with its
\* configuration: what its own stream, its own failure or its own deadline
\* gives
SoloOutcome(r) ==
    CASE ended[r] = "call_rejected" -> try_outcome[r]
      [] ended[r] = "stream_end" ->
           Translate(AfterLoop(LastResultOf(stream[r])), config[r])
      [] ended[r] = "sdk_failure" -> Translate(try_outcome[r], config[r])
      [] ended[r] = "deadline" ->
           Raise(TransportTimeout("Claude Code subprocess timed out after "
                                      \o ToString(config[r].timeout_seconds) \o "s",
                                  config[r].timeout_seconds))

\* every finished run has the outcome it has alone, every stream holds
\* messages of its own session only, and the options of every call carry the
\* call's override of cwd or else the adapter's cwd
RunsIsolated ==
    \A r \in Runs :
        /\ \A i \in DOMAIN stream[r] : stream[r][i] \in SessionMessages(r)
        /\ pc[r] = "done" => outcome[r] = SoloOutcome(r)
        /\ query_args[r] # None
           => query_args[r][1].options.cwd =
                  IF "cwd" \in kwargs[r] THEN Some(OverrideCwd) ELSE config[r].cwd

\* C25: for any interleaving of the deliveries, failures and deadline
\* expiries of two runs on one adapter, each run ends with the outcome it
\* has when run alone on its own stream, and no step changes the adapter's
\* configuration: a per-call override reaches only the options of its call
ConcurrentRunsAreIndependent ==
    [][config' = config /\ RunsIsolated']_vars

\* run 1 overrode cwd and returned the envelope of its session after run 2,
\* started later without an override, had consumed a message and timed out
InterleavedRunsWitness ==
    /\ pc = [r \in TwoRuns |-> "done"]
    /\ kwargs[1] = {"cwd"} /\ kwargs[2] = {}
    /\ outcome[1].kind = "return"
    /\ outcome[1].value.session_id = SessionOf(1)
    /\ nmsgs[2] > 0
    /\ outcome[2].kind = "raise"
    /\ outcome[2].exc.type = "TransportTimeout"
    /\ query_args[1][1].options.cwd = Some(OverrideCwd)
    /\ query_args[2][1].options.cwd = config[2].cwd
    /\ config[2].cwd # Some(OverrideCwd)

\* C26: there is no retry: an invocation of run() that has reached its call
\* of query() has started exactly one session, whatever happened afterwards,
\* and a call of run_gsd_command runs on an adapter built from the engine's
\* own settings and the arguments of that call alone
OneSessionPerInvocation ==
    \A r \in Runs :
        /\ query_args[r] # None => sessions[r] = 1
        /\ engine_args[r] # None
           => LET a == engine_args[r][1]
              IN /\ config[r].timeout_seconds = EffectiveTimeout(a.timeout, a.command)
                 /\ kwargs[r] = RunKwargs(a.answer_map # None)

\* C27: provided time advances, every run eventually terminates with one
\* outcome, a returned envelope or one raised error of the five typed
\* variants; a session that stays silent is ended by the deadline
EveryRunEndsWithEnvelopeOrTypedError ==
    \A r \in SingleRun :
        (pc[r] # "idle")
        ~> /\ pc[r] = "done"
           /\ \/ outcome[r].kind = "return"
              \/ /\ outcome[r].kind = "raise"
                 /\ outcome[r].exc.type \in LocalVariants

\* C19: query() receives only a prompt and an options object; a callback or
\* hooks given to run() are set on the options and the prompt is then an
\* async sequence of turns; without a callback the options carry neither and
\* the prompt is the plain string
CallbackForwardedOnOptions ==
    \A r \in Runs :
        query_args[r] # None
        => LET q == query_args[r][1]
           IN /\ q.keywords = {"prompt", "options"}
              /\ "can_use_tool" \in kwargs[r]
                 => (q.options.can_use_tool # None /\ q.prompt = "async_iterable")
              /\ "hooks" \in kwargs[r] => q.options.hooks # None
              /\ "can_use_tool" \notin kwargs[r]
                 => (q.options.can_use_tool = None /\ q.prompt = "str")
              /\ "hooks" \notin kwargs[r] => q.options.hooks = None

\* C15: a blocking call run_sync(prompt) made while another one is under way
\* on the same adapter completes: it fails only when its own session ends
\* without a result message or runs into the deadline, and when its session
\* ends after a result message it returns the envelope of that message, which
\* carries its own session's id
ConcurrentBlockingCallsComplete ==
    \A r \in Runs :
        (entry[r] = "run_sync" /\ kwargs[r] = {} /\ pc[r] = "done")
        => /\ final[r].kind = "raise" => ended[r] \in {"stream_end", "deadline"}
           /\ (ended[r] = "stream_end" /\ emitted[r] # None)
              => /\ final[r] = Return(EnvelopeOf(emitted[r][1]))
                 /\ final[r].value.session_id = SessionOf(r)

-----------------------------------------------------------------------------
(* Properties of WorkflowEngine and the command workflows *)

\* C20: every call of a public API function emits exactly one outcome event:
\* the success event of the function when the result has success = true, an
\* ERROR event when it has success = false, and never none
EveryApiCallEmitsOneOutcomeEvent ==
    api_call.function # "none"
    => /\ Len(events) = 1
       /\ events[1].command = api_call.function
       /\ api_result.kind = "return"
       /\ api_result.value.success
          => events[1].type = SuccessEvent(api_call.function)
       /\ ~api_result.value.success => events[1].type = "ERROR"

\* C13: the timeout handed to the session is the engine's explicit timeout
\* whenever one was given, and otherwise 900 for gsd:new-project, 600 for
\* gsd:plan-phase, 1200 for gsd:execute-phase and 600 for any other command
ExplicitTimeoutAlwaysWins ==
    \A r \in Runs :
        engine_args[r] # None
        => LET a == engine_args[r][1]
           IN config[r].timeout_seconds =
                  IF a.timeout # None THEN a.timeout[1]
                  ELSE CASE a.command = "gsd:new-project" -> 900
                         [] a.command = "gsd:plan-phase" -> 600
                         [] a.command = "gsd:execute-phase" -> 1200
                         [] OTHER -> 600

Keys(d) == {d[i].key : i \in DOMAIN d}

\* C18: the policy a workflow gives to the engine has the keys of its
\* defaults table and of the caller's overrides; a key of the overrides has
\* the caller's value, any other key its default value; and the defaults
\* tables are the ones the modules define
PolicyIsDefaultsMergedWithOverrides ==
    /\ defaults = [w \in Workflows |-> DefaultsTable(w)]
    /\ \A r \in Runs :
           workflow_args[r] # None
           => LET a == workflow_args[r][1]
                  table == DefaultsTable(a.workflow)
                  over == IF a.answer_overrides # None
                          THEN a.answer_overrides[1] ELSE << >>
              IN /\ engine_args[r] # None
                 /\ engine_args[r][1].answer_map # None
                 /\ LET policy == engine_args[r][1].answer_map[1]
                    IN /\ Keys(policy) = Keys(table) \cup Keys(over)
                       /\ Len(policy) = Cardinality(Keys(policy))
                       /\ \A k \in Keys(over) :
                              DictGet(policy, k) = DictGet(over, k)
                       /\ \A k \in Keys(table) \ Keys(over) :
                              DictGet(policy, k) = DictGet(table, k)

\* execute_phase_workflow was given an override of the default "proceed" and
\* two keys the table does not have: the policy holds the caller's "No", the
\* default of "approve" and the two new keys
MergedPolicyWitness ==
    \E r \in Runs :
        /\ workflow_args[r] # None
        /\ workflow_args[r][1].workflow = "execute_phase"
        /\ workflow_args[r][1].answer_overrides # None
        /\ Len(workflow_args[r][1].answer_overrides[1]) = 3
        /\ LET policy == engine_args[r][1].answer_map[1]
           IN /\ Len(policy) = 8
              /\ DictGet(policy, "proceed") = "No"
              /\ DictGet(policy, "approve") = "approved"
              /\ DictGet(policy, "custom") = "val"
              /\ DictGet(policy, "depth") = "5"

-----------------------------------------------------------------------------
(* commands/answers.py: build_answer_callback *)

\* PermissionResultAllow(updated_input=...)
PermissionResultAllow(updated_input) ==
    [behavior |-> "allow", updated_input |-> updated_input]

\* FirstSubstringMatch without the break: the last matching item is kept
LastSubstringMatch(map, question_text) ==
    LET question_lower == Lower(question_text)
        hits == {i \in DOMAIN map : Contains(Lower(map[i].key), question_lower)}
    IN IF hits = {} THEN 0
       ELSE CHOOSE i \in hits : \A j \in hits : i >= j

\* FirstSubstringMatch comparing key and question text as they are written
FirstSubstringMatchCaseSensitive(map, question_text) ==
    LET hits == {i \in DOMAIN map : Contains(map[i].key, question_text)}
    IN IF hits = {} THEN 0
       ELSE CHOOSE i \in hits : \A j \in hits : i <= j

\* the first item of the policy, in insertion order, whose lowercased key is
\* a substring of the lowercased question text; 0 when there is none
FirstSubstringMatch(map, question_text) ==
    LET question_lower == Lower(question_text)
        hits == {i \in DOMAIN map : Contains(Lower(map[i].key), question_lower)}
    IN IF hits = {} THEN 0
       ELSE CHOOSE i \in hits : \A j \in hits : i <= j

\* ResolveQuestion trying the substring match before the exact match
ResolveQuestionSubstringFirst(map, q) ==
    LET question_text == IF "question" \in DOMAIN q THEN q.question ELSE ""
        hit == FirstSubstringMatch(map, question_text)
        options == IF "options" \in DOMAIN q THEN q.options ELSE << >>
    IN IF hit # 0
       THEN Return([text |-> question_text, answer |-> map[hit].value,
                    matched |-> TRUE])
       ELSE IF DictHas(map, question_text)
       THEN Return([text |-> question_text,
                    answer |-> DictGet(map, question_text), matched |-> TRUE])
       ELSE IF Len(options) > 0
       THEN Return([text |-> question_text,
                    answer |-> IF "label" \in DOMAIN options[1]
                               THEN options[1].label ELSE "",
                    matched |-> FALSE])
       ELSE Return([text |-> question_text, answer |-> "", matched |-> FALSE])

\* ResolveQuestion falling back to the last option instead of the first
ResolveQuestionLastOption(map, q) ==
    LET question_text == IF "question" \in DOMAIN q THEN q.question ELSE ""
        hit == FirstSubstringMatch(map, question_text)
        options == IF "options" \in DOMAIN q THEN q.options ELSE << >>
    IN IF DictHas(map, question_text)
       THEN Return([text |-> question_text,
                    answer |-> DictGet(map, question_text), matched |-> TRUE])
       ELSE IF hit # 0
       THEN Return([text |-> question_text, answer |-> map[hit].value,
                    matched |-> TRUE])
       ELSE IF Len(options) > 0
       THEN Return([text |-> question_text,
                    answer |-> IF "label" \in DOMAIN options[Len(options)]
                               THEN options[Len(options)].label ELSE "",
                    matched |-> FALSE])
       ELSE Return([text |-> question_text, answer |-> "", matched |-> FALSE])

\* ResolveQuestion reading q["question"] and options[0]["label"] without
\* defaults: a missing key raises KeyError
ResolveQuestionKeyError(map, q) ==
    IF "question" \notin DOMAIN q
    THEN Raise([type |-> "KeyError", message |-> "'question'"])
    ELSE LET question_text == q.question
             hit == FirstSubstringMatch(map, question_text)
             options == IF "options" \in DOMAIN q THEN q.options ELSE << >>
         IN IF DictHas(map, question_text)
            THEN Return([text |-> question_text,
                         answer |-> DictGet(map, question_text),
                         matched |-> TRUE])
            ELSE IF hit # 0
            THEN Return([text |-> question_text, answer |-> map[hit].value,
                         matched |-> TRUE])
            ELSE IF Len(options) > 0
            THEN IF "label" \in DOMAIN options[1]
                 THEN Return([text |-> question_text,
                              answer |-> options[1].label, matched |-> FALSE])
                 ELSE Raise([type |-> "KeyError", message |-> "'label'"])
            ELSE Return([text |-> question_text, answer |-> "",
                         matched |-> FALSE])

\* one iteration of `for q in questions`: the answer stored under the
\* question text, and whether the fallback (with its warning) was taken
ResolveQuestion(map, q) ==
    LET question_text == IF "question" \in DOMAIN q THEN q.question ELSE ""
        hit == FirstSubstringMatch(map, question_text)
        options == IF "options" \in DOMAIN q THEN q.options ELSE << >>
    IN IF DictHas(map, question_text)
       THEN Return([text |-> question_text,
                    answer |-> DictGet(map, question_text), matched |-> TRUE])
       ELSE IF hit # 0
       THEN Return([text |-> question_text, answer |-> map[hit].value,
                    matched |-> TRUE])
       ELSE IF Len(options) > 0
       THEN Return([text |-> question_text,
                    answer |-> IF "label" \in DOMAIN options[1]
                               THEN options[1].label ELSE "",
                    matched |-> FALSE])
       ELSE Return([text |-> question_text, answer |-> "", matched |-> FALSE])

\* the loop over questions from index i on, with the answers dict and the
\* warnings logged so far; an exception raised by an iteration ends the loop
RECURSIVE AnswerLoop(_, _, _, _, _)
AnswerLoop(map, questions, i, answers, logged) ==
    IF i > Len(questions)
    THEN Return([answers |-> answers, logged |-> logged])
    ELSE LET res == ResolveQuestion(map, questions[i])
         IN IF res.kind = "raise" THEN res
            ELSE AnswerLoop(map, questions, i + 1,
                            DictSet(answers, res.value.text, res.value.answer),
                            IF res.value.matched THEN logged
                            ELSE Append(logged, res.value.text))

\* CanUseTool replacing the input by the answers alone
CanUseToolAnswersOnly(map, tool_name, tool_input) ==
    IF tool_name # "AskUserQuestion"
    THEN [result |-> Return(PermissionResultAllow(None)), logged |-> << >>]
    ELSE LET questions == IF "questions" \in DOMAIN tool_input
                          THEN tool_input.questions ELSE << >>
             loop == AnswerLoop(map, questions, 1, << >>, << >>)
         IN IF loop.kind = "raise"
            THEN [result |-> loop, logged |-> << >>]
            ELSE [result |->
                      Return(PermissionResultAllow(
                                 Some([answers |-> loop.value.answers]))),
                  logged |-> loop.value.logged]

\* CanUseTool handing the input of the other tools back as a replaced input
CanUseToolEchoesInput(map, tool_name, tool_input) ==
    IF tool_name # "AskUserQuestion"
    THEN [result |-> Return(PermissionResultAllow(Some(tool_input))),
          logged |-> << >>]
    ELSE LET questions == IF "questions" \in DOMAIN tool_input
                          THEN tool_input.questions ELSE << >>
             loop == AnswerLoop(map, questions, 1, << >>, << >>)
         IN IF loop.kind = "raise"
            THEN [result |-> loop, logged |-> << >>]
            ELSE [result |->
                      Return(PermissionResultAllow(
                                 Some([questions |-> questions,
                                       answers |-> loop.value.answers]))),
                  logged |-> loop.value.logged]

\* can_use_tool(tool_name, tool_input, context): the decision and the warnings
CanUseTool(map, tool_name, tool_input) ==
    IF tool_name # "AskUserQuestion"
    THEN [result |-> Return(PermissionResultAllow(None)), logged |-> << >>]
    ELSE LET questions == IF "questions" \in DOMAIN tool_input
                          THEN tool_input.questions ELSE << >>
             loop == AnswerLoop(map, questions, 1, << >>, << >>)
         IN IF loop.kind = "raise"
            THEN [result |-> loop, logged |-> << >>]
            ELSE [result |->
                      Return(PermissionResultAllow(
                                 Some([questions |-> questions,
                                       answers |-> loop.value.answers]))),
                  logged |-> loop.value.logged]

\* the runtime asks the callback about one tool use
Invoke(tool_name, tool_input) ==
    /\ decision = NoOutcome
    /\ tool_call' = [tool_name |-> tool_name, tool_input |-> tool_input]
    /\ LET call == CanUseTool(answer_map, tool_name, tool_input)
       IN /\ decision' = call.result
          /\ warnings' = call.logged
    /\ UNCHANGED <<answer_map, defaults>>
    /\ UNCHANGED <<transportVars, apiVars, registryVars>>

-----------------------------------------------------------------------------
(* The specification of the callback *)

Alphabet == {"a", "A", "b"}

\* the strings over Alphabet of at most n characters
RECURSIVE StringsUpTo(_)
StringsUpTo(n) ==
    IF n = 0 THEN {""}
    ELSE StringsUpTo(n - 1)
         \cup {s \o c : s \in StringsUpTo(n - 1), c \in Alphabet}

\* the sequences over S of length lo to hi
SeqsOfLen(S, lo, hi) == UNION {[1..n -> S] : n \in lo..hi}

\* the sequences of at most n distinct elements of S
DistinctSeqs(S, n) ==
    {q \in SeqsOfLen(S, 0, n) : \A i, j \in DOMAIN q : i # j => q[i] # q[j]}

\* the keys of the policies: the empty key, both cases of a letter, a letter
\* of one case only, a key of two characters in mixed case, and the key of
\* test_substring_match_case_insensitive
PolicyKeys == {"", "a", "A", "b", "aB", "depth"}

\* the question texts: the strings over Alphabet and the text of
\* test_substring_match_case_insensitive
QuestionTexts == StringsUpTo(MaxTextLen) \cup {"What Depth level?"}

\* the policies: distinct keys in any insertion order, the item at position i
\* carrying the answer "v<i>"
Policies ==
    {[i \in DOMAIN ks |-> [key |-> ks[i], value |-> "v" \o ToString(i)]] :
         ks \in DistinctSeqs(PolicyKeys, MaxKeys)}

\* option lists of a question: none, one option without a label, labelled ones
OptionLists ==
    {<< >>,
     <<[label |-> "x", description |-> "d"]>>,
     <<[label |-> "x"], [label |-> "y"]>>,
     <<[description |-> "d"], [label |-> "y"]>>}

\* question dicts: with or without the keys question and options
Questions ==
    {[header |-> "h"]}
    \cup [header : {"h"}, question : QuestionTexts]
    \cup [header : {"h"}, options : OptionLists]
    \cup [header : {"h"}, question : QuestionTexts, options : OptionLists]

\* the questions used in calls that carry several questions
ListQuestions ==
    {[header |-> "h"],
     [header |-> "h", question |-> "a"],
     [header |-> "h", question |-> "a", options |-> <<[label |-> "x"]>>],
     [header |-> "h", question |-> "Ab", options |-> <<[label |-> "y"]>>]}

\* tool inputs of AskUserQuestion: no questions key, an empty list, one
\* question of any shape, several questions, or questions beside another key
AskInputs ==
    {[command |-> "ls"]}
    \cup {[questions |-> <<[header |-> "h", question |-> "a"],
                           [header |-> "h", question |-> "b",
                            options |-> <<[label |-> "x"]>>]>>,
           metadata |-> "m"]}
    \cup {[questions |-> qs] : qs \in SeqsOfLen(Questions, 0, 1)}
    \cup {[questions |-> qs] : qs \in SeqsOfLen(ListQuestions, 2, MaxQuestions)}

ToolNames == {"AskUserQuestion", "Bash", "askuserquestion"}

\* tool inputs of the other tools
OtherInputs == {[command |-> "ls"], [questions |-> <<[header |-> "h", question |-> "a"]>>]}

InitAnswers ==
    /\ InitRuns
    /\ InitApi
    /\ config = [r \in SingleRun |-> TransportConfig(300)]
    /\ answer_map \in Policies
    /\ tool_call = [tool_name |-> "", tool_input |-> [command |-> ""]]
    /\ decision = NoOutcome
    /\ warnings = << >>

NextAnswers ==
    \/ \E tool_input \in AskInputs : Invoke("AskUserQuestion", tool_input)
    \/ \E tool_name \in ToolNames \ {"AskUserQuestion"}, tool_input \in OtherInputs :
           Invoke(tool_name, tool_input)

SpecAnswers == InitAnswers /\ [][NextAnswers]_vars

\* the items callers override with: a key of NEW_PROJECT_DEFAULTS, a key of
\* the two other tables, a new key, a key of NEW_PROJECT_DEFAULTS in another
\* letter case and the empty key
OverrideItems ==
    {[key |-> "depth", value |-> "5"],
     [key |-> "approve", value |-> "No"],
     [key |-> "custom", value |-> "val"],
     [key |-> "Depth", value |-> "9"],
     [key |-> "", value |-> "any"]}

\* the answer_overrides= arguments: none, or a dict of at most MaxKeys of the
\* items in any insertion order
MergedOverrides ==
    {None}
    \cup {Some(d) : d \in {q \in DistinctSeqs(OverrideItems, MaxKeys) :
                               \A i, j \in DOMAIN q : i # j => q[i].key # q[j].key}}

\* question texts that contain keys of the defaults tables, keys of the
\* overrides, both or neither
MergedTexts ==
    {"Custom depth?", "Approve the custom plan?", "custom", "Proceed?",
     "Is the checkpoint approved?", "other"}

\* the workflow w was called with answer_overrides, merged its policy and
\* had the engine build the callback from it
InitMerged ==
    /\ InitTransportOn(SingleRun)
    /\ InitApi
    /\ config = [r \in SingleRun |-> TransportConfig(300)]
    /\ \E w \in Workflows, answer_overrides \in MergedOverrides :
           /\ workflow_args = [r \in SingleRun |->
                                  Some([workflow |-> w, timeout |-> None,
                                        answer_overrides |-> answer_overrides])]
           /\ answer_map = MergePolicy(DefaultsTable(w), answer_overrides)
    /\ tool_call = [tool_name |-> "", tool_input |-> [command |-> ""]]
    /\ decision = NoOutcome
    /\ warnings = << >>

NextMerged ==
    \E text \in MergedTexts, options \in {<< >>, <<[label |-> "x"]>>} :
        Invoke("AskUserQuestion",
               [questions |-> <<[header |-> "h", question |-> text,
                                 options |-> options]>>])

SpecMerged == InitMerged /\ [][NextMerged]_vars

-----------------------------------------------------------------------------
(* Properties of the answer callback *)

\* the questions of the AskUserQuestion call the callback has answered
AskedQuestions ==
    IF tool_call.tool_name = "AskUserQuestion"
       /\ "questions" \in DOMAIN tool_call.tool_input
       /\ decision.kind = "return"
    THEN tool_call.tool_input.questions
    ELSE << >>

\* the text of question i, empty when the question carries none
AskedText(i) ==
    IF "question" \in DOMAIN AskedQuestions[i] THEN AskedQuestions[i].question
    ELSE ""

\* the option list of question i, empty when the question carries none
AskedOptions(i) ==
    IF "options" \in DOMAIN AskedQuestions[i] THEN AskedQuestions[i].options
    ELSE << >>

\* the answers dict of the decision
ReturnedAnswers == decision.value.updated_input[1].answers

\* question i is the last one of the call with its text, so that the entry of
\* the answers dict under its text is the answer resolved for it
LastWithItsText(i) ==
    \A j \in DOMAIN AskedQuestions : j > i => AskedText(j) # AskedText(i)

\* the policy items whose key is a case-insensitive substring of the text
SubstringKeys(text) ==
    {k \in DOMAIN answer_map : Contains(Lower(answer_map[k].key), Lower(text))}

\* C7: a question whose text is literally a policy key is answered with that
\* key's value, whatever other keys are substrings of the text
ExactKeyWins ==
    \A i \in DOMAIN AskedQuestions :
        DictHas(answer_map, AskedText(i))
        => /\ DictHas(ReturnedAnswers, AskedText(i))
           /\ DictGet(ReturnedAnswers, AskedText(i))
                  = DictGet(answer_map, AskedText(i))

\* the text is a key at the second position while the key at the first
\* position is a substring of it, and the second key's value is the answer
ExactKeyWitness ==
    \E i \in DOMAIN AskedQuestions :
        /\ Len(answer_map) = 2
        /\ answer_map[2].key = AskedText(i)
        /\ 1 \in SubstringKeys(AskedText(i))
        /\ Len(answer_map[1].key) > 0
        /\ DictGet(ReturnedAnswers, AskedText(i)) = answer_map[2].value

\* C8: a question that no policy key matches, exactly or as a
\* case-insensitive substring, is answered with the label of its first option
\* when it has options, and with the empty string when it has none
UnmatchedFallsBack ==
    \A i \in DOMAIN AskedQuestions :
        (LastWithItsText(i) /\ SubstringKeys(AskedText(i)) = {}
         /\ ~DictHas(answer_map, AskedText(i)))
        => /\ DictHas(ReturnedAnswers, AskedText(i))
           /\ (Len(AskedOptions(i)) > 0 /\ "label" \in DOMAIN AskedOptions(i)[1])
              => DictGet(ReturnedAnswers, AskedText(i)) = AskedOptions(i)[1].label
           /\ Len(AskedOptions(i)) = 0
              => DictGet(ReturnedAnswers, AskedText(i)) = ""

\* one call with a non-empty policy held an unmatched question with options,
\* answered with its first label, and an unmatched one without, answered ""
FallbackWitness ==
    \E i, j \in DOMAIN AskedQuestions :
        /\ Len(answer_map) > 0
        /\ SubstringKeys(AskedText(i)) = {} /\ SubstringKeys(AskedText(j)) = {}
        /\ Len(AskedOptions(i)) > 0 /\ Len(AskedOptions(j)) = 0
        /\ DictGet(ReturnedAnswers, AskedText(i)) = AskedOptions(i)[1].label
        /\ DictGet(ReturnedAnswers, AskedText(j)) = ""
        /\ Len(warnings) = 2

\* C9: for a question without an exact key, a key that is a substring of the
\* text once both are lowercased matches it, and the answer is the value of a
\* key matching in this way
SubstringMatchIgnoresCase ==
    \A i \in DOMAIN AskedQuestions :
        (LastWithItsText(i) /\ ~DictHas(answer_map, AskedText(i))
         /\ SubstringKeys(AskedText(i)) # {})
        => /\ DictHas(ReturnedAnswers, AskedText(i))
           /\ \E k \in SubstringKeys(AskedText(i)) :
                  DictGet(ReturnedAnswers, AskedText(i)) = answer_map[k].value

\* the only matching key occurs in the text in another letter case
IgnoresCaseWitness ==
    \E i \in DOMAIN AskedQuestions :
        /\ ~DictHas(answer_map, AskedText(i))
        /\ Cardinality(SubstringKeys(AskedText(i))) = 1
        /\ \E k \in SubstringKeys(AskedText(i)) :
               /\ 0 < Len(answer_map[k].key)
               /\ Len(answer_map[k].key) < Len(AskedText(i))
               /\ ~Contains(answer_map[k].key, AskedText(i))
               /\ DictGet(ReturnedAnswers, AskedText(i)) = answer_map[k].value

\* C28: for a question without an exact key that several policy keys match
\* as case-insensitive substrings, the answer is the value of the first of
\* these keys in the insertion order of the policy, never that of a later one
FirstMatchingKeyWins ==
    \A i \in DOMAIN AskedQuestions :
        (LastWithItsText(i) /\ ~DictHas(answer_map, AskedText(i))
         /\ SubstringKeys(AskedText(i)) # {})
        => LET first == CHOOSE k \in SubstringKeys(AskedText(i)) :
                            \A l \in SubstringKeys(AskedText(i)) : k <= l
           IN DictGet(ReturnedAnswers, AskedText(i)) = answer_map[first].value

\* both keys of the policy are non-empty substrings of a text that is no key,
\* and the answer is the value of the first key, not of the second
SeveralKeysWitness ==
    \E i \in DOMAIN AskedQuestions :
        /\ Len(answer_map) = 2
        /\ SubstringKeys(AskedText(i)) = {1, 2}
        /\ answer_map[1].key # "" /\ answer_map[2].key # ""
        /\ ~DictHas(answer_map, AskedText(i))
        /\ DictGet(ReturnedAnswers, AskedText(i)) = answer_map[1].value
        /\ answer_map[1].value # answer_map[2].value

\* C10: the callback never raises on an AskUserQuestion call, and the answers
\* it returns hold a string under the text of every question of the call
ResolutionIsTotal ==
    (tool_call.tool_name = "AskUserQuestion")
    => /\ decision.kind = "return"
       /\ decision.value.behavior = "allow"
       /\ \A i \in DOMAIN AskedQuestions :
              /\ DictHas(ReturnedAnswers, AskedText(i))
              /\ DictGet(ReturnedAnswers, AskedText(i)) \in STRING

\* a question without text whose first option has no label was answered
TotalWitness ==
    \E i \in DOMAIN AskedQuestions :
        /\ "question" \notin DOMAIN AskedQuestions[i]
        /\ Len(AskedOptions(i)) > 0
        /\ "label" \notin DOMAIN AskedOptions(i)[1]
        /\ SubstringKeys("") = {}
        /\ DictGet(ReturnedAnswers, "") = ""

\* the question list the callback read from the tool input of the call
OriginalQuestions ==
    IF "questions" \in DOMAIN tool_call.tool_input
    THEN tool_call.tool_input.questions ELSE << >>

\* C11: on an AskUserQuestion call the decision is an allow whose replaced
\* input has exactly the fields questions and answers: questions is the list
\* of the tool input as it was, and answers has one entry per question text,
\* holding the answer resolved for the last question with that text
AllowReplacesInputWithQuestionsAndAnswers ==
    (tool_call.tool_name = "AskUserQuestion" /\ decision # NoOutcome)
    => /\ decision.kind = "return"
       /\ decision.value.behavior = "allow"
       /\ decision.value.updated_input # None
       /\ DOMAIN decision.value.updated_input[1] = {"questions", "answers"}
       /\ decision.value.updated_input[1].questions = OriginalQuestions
       /\ {ReturnedAnswers[k].key : k \in DOMAIN ReturnedAnswers}
              = {AskedText(i) : i \in DOMAIN OriginalQuestions}
       /\ \A i \in DOMAIN OriginalQuestions :
              LastWithItsText(i)
              => DictGet(ReturnedAnswers, AskedText(i))
                     = ResolveQuestion(answer_map, OriginalQuestions[i]).value.answer

\* a tool input with two questions and a further key was replaced by the two
\* questions and their two answers, one from the policy and one a fallback
ReplacedInputWitness ==
    /\ tool_call.tool_name = "AskUserQuestion"
    /\ decision.kind = "return"
    /\ "metadata" \in DOMAIN tool_call.tool_input
    /\ Len(OriginalQuestions) = 2
    /\ DOMAIN decision.value.updated_input[1] = {"questions", "answers"}
    /\ decision.value.updated_input[1].questions = OriginalQuestions
    /\ Len(ReturnedAnswers) = 2
    /\ DictHas(answer_map, "a")
    /\ DictGet(ReturnedAnswers, "a") = DictGet(answer_map, "a")
    /\ DictGet(ReturnedAnswers, "b") = "x"

\* C12: for a tool other than AskUserQuestion the decision is an allow that
\* carries no replaced input, whatever the tool input and the policy; the
\* callback neither denies nor raises
OtherToolsAllowedUnchanged ==
    (decision # NoOutcome /\ tool_call.tool_name # "AskUserQuestion")
    => /\ decision.kind = "return"
       /\ decision.value.behavior = "allow"
       /\ decision.value.updated_input = None

\* a Bash call whose input carries a question the policy has a key for was
\* allowed with no replaced input
OtherToolWitness ==
    /\ tool_call.tool_name = "Bash"
    /\ "questions" \in DOMAIN tool_call.tool_input
    /\ DictHas(answer_map, "a")
    /\ decision.kind = "return"
    /\ decision.value.behavior = "allow"
    /\ decision.value.updated_input = None
    /\ warnings = << >>

\* the workflow whose policy the callback closes over, its defaults table
\* and the overrides its caller gave
MergedWorkflow == workflow_args[1][1].workflow
MergedTable == DefaultsTable(MergedWorkflow)
MergedOver ==
    IF workflow_args[1][1].answer_overrides # None
    THEN workflow_args[1][1].answer_overrides[1] ELSE << >>

\* the positions of the policy whose key is a default key, and those whose
\* key only the caller gave, that match the text
DefaultHits(text) ==
    {k \in SubstringKeys(text) : DictHas(MergedTable, answer_map[k].key)}
CallerOnlyHits(text) ==
    {k \in SubstringKeys(text) : ~DictHas(MergedTable, answer_map[k].key)}

\* C29: the merged policy of a workflow lists the keys of its defaults table
\* first, in the table's order, an overridden key with the caller's value,
\* and the keys only the caller gave after them; so a question without an
\* exact key whose text contains a default key and a caller-only key is
\* answered with the value the policy has for the first such default key
DefaultKeysPrecedeCallerKeys ==
    workflow_args[1] # None
    => /\ \A i \in DOMAIN MergedTable :
              /\ i \in DOMAIN answer_map
              /\ answer_map[i].key = MergedTable[i].key
              /\ answer_map[i].value
                     = IF DictHas(MergedOver, MergedTable[i].key)
                       THEN DictGet(MergedOver, MergedTable[i].key)
                       ELSE MergedTable[i].value
       /\ \A i, j \in DOMAIN answer_map :
              (DictHas(MergedTable, answer_map[i].key)
               /\ ~DictHas(MergedTable, answer_map[j].key)) => i < j
       /\ \A i \in DOMAIN AskedQuestions :
              (~DictHas(answer_map, AskedText(i))
               /\ DefaultHits(AskedText(i)) # {}
               /\ CallerOnlyHits(AskedText(i)) # {})
              => LET first == CHOOSE k \in DefaultHits(AskedText(i)) :
                                  \A l \in DefaultHits(AskedText(i)) : k <= l
                 IN /\ DictGet(ReturnedAnswers, AskedText(i))
                           = answer_map[first].value
                    /\ first \in DOMAIN MergedTable

\* new_project_workflow was given the caller-only key "custom" before an
\* override of "depth"; the question contains both keys and is answered
\* with the caller's value of "depth", not with the value of "custom"
DefaultKeyAnswersWitness ==
    /\ workflow_args[1] # None
    /\ MergedWorkflow = "new_project"
    /\ Len(MergedOver) = 2
    /\ MergedOver[1].key = "custom" /\ MergedOver[2].key = "depth"
    /\ Len(AskedQuestions) = 1
    /\ AskedText(1) = "Custom depth?"
    /\ DefaultHits(AskedText(1)) # {} /\ CallerOnlyHits(AskedText(1)) # {}
    /\ DictGet(ReturnedAnswers, AskedText(1)) = "5"

-----------------------------------------------------------------------------
(* Properties of ProjectRegistry *)

\* no two entries of the dict d share a name or a path, and every entry is
\* stored under its own name
EntriesUnique(d) ==
    /\ \A i, j \in DOMAIN d :
           i # j => /\ d[i].key # d[j].key
                    /\ d[i].value.name # d[j].value.name
                    /\ d[i].value.path # d[j].value.path
    /\ \A i \in DOMAIN d : d[i].key = d[i].value.name

\* the name add(path, name=name) registers the project under
EntryName(path, name) ==
    IF name # None THEN name[1] ELSE BaseName(Resolve(path))

\* C21: after any sequence of add and remove, no two registered entries have
\* the same name or the same resolved path and every entry is stored under
\* its own name; an add whose name or resolved path is already registered
\* raises ValueError
RegistryKeepsEntriesUnique ==
    [][/\ EntriesUnique(projects')
       /\ (/\ reg_call'.method = "add"
           /\ \E i \in DOMAIN projects :
                  \/ projects[i].key = EntryName(reg_call'.path, reg_call'.name)
                  \/ projects[i].value.path = Resolve(reg_call'.path))
          => /\ reg_result'.kind = "raise"
             /\ reg_result'.exc.type = "ValueError"]_vars

\* with two projects registered, one under a name of the caller's, an add of
\* the second spelling of a registered path was rejected
DuplicatePathWitness ==
    /\ Len(projects) = 2
    /\ \E i \in DOMAIN projects : projects[i].key = "other"
    /\ reg_call.method = "add"
    /\ reg_call.path = "/w/lib/../app"
    /\ reg_call.name = None
    /\ \A i \in DOMAIN projects : projects[i].key # "app"
    /\ reg_result.kind = "raise"
    /\ reg_result.exc.type = "ValueError"

\* the dicts of entries a and b hold the same entries in the same order,
\* with equal name, path and last known state
SameEntries(a, b) ==
    /\ Len(a) = Len(b)
    /\ \A i \in DOMAIN a :
           /\ a[i].key = b[i].key
           /\ a[i].value.name = b[i].value.name
           /\ a[i].value.path = b[i].value.path
           /\ a[i].value.last_known_state = b[i].value.last_known_state

\* C22: after every add that returned its entry and every remove that
\* returned True, loading a new registry from the file yields exactly the
\* entries held in memory, with equal name, path and last known state; a
\* remove of a name that is not registered returns False and changes neither
\* the entries in memory nor the file
SavedRegistryReloadsEqual ==
    [][/\ (/\ reg_call'.method \in {"add", "remove"}
           /\ reg_result'.kind = "return"
           /\ reg_call'.method = "remove" => reg_result'.value)
          => /\ RegistryLoad(registry').kind = "return"
             /\ SameEntries(RegistryLoad(registry').value, projects')
       /\ (/\ reg_call'.method = "remove"
           /\ ~DictHas(projects, reg_call'.name))
          => /\ reg_result'.kind = "return"
             /\ ~reg_result'.value
             /\ projects' = projects
             /\ registry' = registry]_vars

\* an add has just returned its entry with two projects in memory, one with
\* a state snapshot and one without, and the file holds both
ReloadWitness ==
    /\ reg_call.method = "add"
    /\ reg_result.kind = "return"
    /\ Len(projects) = 2
    /\ projects[1].value.last_known_state = None
    /\ projects[2].value.last_known_state # None
    /\ registry.content # None
    /\ SameEntries(ModelValidateJson(registry.content[1]), projects)

\* add(path, name=name) on the entries d has a reason to be rejected: the
\* path does not exist, it has no .planning/ directory, the name is
\* registered or the resolved path is registered
MustReject(d, path, name) ==
    \/ ~PathExists(path)
    \/ ~HasPlanning(Resolve(path))
    \/ \E i \in DOMAIN d : d[i].key = EntryName(path, name)
    \/ \E i \in DOMAIN d : d[i].value.path = Resolve(path)

\* C30: an add that must be rejected raises ValueError and leaves the
\* registry unchanged: the entries in memory are those before the call and
\* nothing is written to the registry file
RejectedAddChangesNothing ==
    [][(/\ reg_call'.method = "add"
        /\ MustReject(projects, reg_call'.path, reg_call'.name))
       => /\ reg_result'.kind = "raise"
          /\ reg_result'.exc.type = "ValueError"
          /\ projects' = projects
          /\ ~reg_call'.saves
          /\ registry' = registry]_vars

\* with one project registered and saved, an add of its second spelling
\* under another name was rejected
RejectedAddWitness ==
    /\ reg_call.method = "add"
    /\ reg_call.path = "/w/lib/../app"
    /\ reg_call.name = Some("other")
    /\ reg_result.kind = "raise"
    /\ reg_result.exc.type = "ValueError"
    /\ Len(projects) = 1
    /\ projects[1].key = "app"
    /\ registry.content = Some(ModelDumpJson(projects))

====
